---- MODULE Spec2Model ----
(***************************************************************************)
(* State-machine model of the lexpertchatai backend.                       *)
(*                                                                         *)
(*  - src/src/db/supabase.py      SupabaseVectorStore (store, search,      *)
(*                                delete) over the tables of               *)
(*                                src/src/scripts/init_db.py               *)
(*  - src/src/core/rag_pipeline.py RAGPipeline (process_document, query)   *)
(*  - src/backend/app/services/storage_service.py  create_bucket,          *)
(*                                upload_file                              *)
(*  - src/src/backend/auth.py     auth_middleware, verify_supabase_jwt,    *)
(*                                get_bot, health_check                    *)
(*  - src/src/backend/app.py      get_current_user and the API routes      *)
(*  - src/src/backend/rag/pipeline.py  auto_tag, get_prompt_coach          *)
(*  - src/src/core/auto_tagger.py DocumentTagger.tag_document              *)
(*  - src/src/core/prompt_coach.py PromptCoach (analyze_prompt,            *)
(*                                get_tooltip)                             *)
(*  - src/src/app.py              LexpertChat.process_upload               *)
(*  - src/backend/main.py         upload_file, check_bucket_exists, chat   *)
(*  - src/backend/app/api/routes/chat.py, services/chat_service.py  chat   *)
(*                                                                         *)
(* Every client request is a process p with a program counter pc[p]; one   *)
(* action is one step of the handler between two calls to an external      *)
(* service (database, embedding service, language model, cache, storage).  *)
(* External calls that can raise do so nondeterministically.               *)
(***************************************************************************)
EXTENDS Integers, Sequences, FiniteSets, TLC

(***************************************************************************)
(* Program constants                                                       *)
(***************************************************************************)
VECTOR_DIMENSION == 1536
CHUNK_SIZE == 500
CHUNK_OVERLAP == 50
DefaultTopK == 5

(***************************************************************************)
(* Bounds of the model                                                     *)
(***************************************************************************)
\* rows ever inserted into documents and document_vectors together
MaxRows == 4
\* client calls ever started by the concurrent clients of the store
MaxCalls == 3
\* client calls ever started by the client of the pipeline
MaxPipelineCalls == 4
\* client calls ever started by the concurrent clients of the storage service
MaxStorageCalls == 2
\* requests ever sent to the authenticated API
MaxRequests == 2
\* calls ever made of auto_tag, get_prompt_coach and get_tooltip
MaxTextCalls == 2
\* process_upload calls ever started
MaxUploads == 1
\* token-phrase pairs with a similarity other than 0 in a tag_document call
MaxSpikes == 2
\* requests to POST /chat in one behaviour of SpecChat
MaxChatCalls == 2
\* call numbers
CallNumbers == 1..(MaxCalls + MaxPipelineCalls)

\* concurrent clients of the store
Procs == {1, 2}

(***************************************************************************)
(* Inputs                                                                  *)
(***************************************************************************)
\* a text is identified by the document it is cut from and its token window
NoText == [name |-> "", lo |-> 0, hi |-> 0]
\* document contents: name and length in tokens (one chunk, two chunks)
Contents == {[name |-> "a", len |-> CHUNK_SIZE - 100],
             [name |-> "b", len |-> 2 * CHUNK_SIZE - 100]}
NoContent == [name |-> "", len |-> 0]
Whole(c) == [name |-> c.name, lo |-> 0, hi |-> c.len]
\* uploads: a content with its metadata dictionary
Uploads == {[content |-> [name |-> "a", len |-> CHUNK_SIZE - 100],
             metadata |-> [type |-> "petition"]],
            [content |-> [name |-> "b", len |-> 2 * CHUNK_SIZE - 100],
             metadata |-> [type |-> "example"]]}
NoMetadata == [type |-> ""]
\* doc_id argument: "" stands for None (both are falsy in `if doc_id:`)
DocIdArgs == {"", "x"}
\* embeddings: length of the list and (abstract) direction of the vector
NoEmb == [dim |-> 0, vec |-> <<0, 0>>]
EmbeddingArgs == {[dim |-> d, vec |-> <<1, 0>>] :
                    d \in {VECTOR_DIMENSION - 1, VECTOR_DIMENSION,
                            VECTOR_DIMENSION + 1}}
\* metadata_filter argument: a set of <<key, value>> pairs, {} for None
Filters == {{}, {<<"type", "petition">>}}
\* top_k argument
TopKs == {1, DefaultTopK}
\* query strings: one of them is also the whole text of document "a"
Queries == {Whole([name |-> "a", len |-> CHUNK_SIZE - 100])}

Min(a, b) == IF a < b THEN a ELSE b

(***************************************************************************)
(* TokenTextSplitter(chunk_size, chunk_overlap).split_text                 *)
(***************************************************************************)
RECURSIVE SplitFrom(_, _)
SplitFrom(c, start) ==
    IF start >= c.len THEN <<>>
    ELSE LET cur == Min(start + CHUNK_SIZE, c.len) IN
         <<[name |-> c.name, lo |-> start, hi |-> cur]>> \o
         (IF cur = c.len THEN <<>>
          ELSE SplitFrom(c, start + CHUNK_SIZE - CHUNK_OVERLAP))

split_text(c) == SplitFrom(c, 0)

\* every text the embedder can be asked about
AllTexts == UNION {{split_text(c)[i] : i \in 1..Len(split_text(c))} : c \in Contents}
              \cup Queries

(***************************************************************************)
(* OpenAIEmbeddings(model="text-embedding-3-small"): the vector of a text. *)
(* The service returns VECTOR_DIMENSION floats; the direction stands for   *)
(* the meaning of the text (texts cut from one document point one way).    *)
(***************************************************************************)
Embed(t) == [dim |-> VECTOR_DIMENSION,
             vec |-> IF t.name = "a" THEN <<1, 0>> ELSE <<0, 1>>]

\* inner-product similarity of two embeddings
Similarity(e1, e2) == e1.vec[1] * e2.vec[1] + e1.vec[2] * e2.vec[2]

(***************************************************************************)
(* Strings: a str is the sequence of its characters                        *)
(***************************************************************************)
UpperCase == <<"A", "B", "C", "D", "E", "F", "G", "H", "I", "J", "K", "L", "M",
               "N", "O", "P", "Q", "R", "S", "T", "U", "V", "W", "X", "Y", "Z">>
LowerCase == <<"a", "b", "c", "d", "e", "f", "g", "h", "i", "j", "k", "l", "m",
               "n", "o", "p", "q", "r", "s", "t", "u", "v", "w", "x", "y", "z">>
\* characters that str.strip() removes and that \s matches
Whitespace == {" ", "\t", "\n"}
\* LATIN CAPITAL LETTER I WITH DOT ABOVE and COMBINING DOT ABOVE
I_DOT == "U+0130"
DOT_ABOVE == "U+0307"

\* str.lower() of one character: U+0130 lower-cases to the two characters
\* "i" U+0307, every other character to one character
LowerChar(c) ==
    IF \E k \in 1..Len(UpperCase) : UpperCase[k] = c
    THEN <<LowerCase[CHOOSE k \in 1..Len(UpperCase) : UpperCase[k] = c]>>
    ELSE IF c = I_DOT THEN <<"i", DOT_ABOVE>>
    ELSE <<c>>

RECURSIVE lower(_)
lower(s) == IF s = <<>> THEN <<>> ELSE LowerChar(Head(s)) \o lower(Tail(s))

RECURSIVE lstrip(_)
lstrip(s) == IF s # <<>> /\ Head(s) \in Whitespace THEN lstrip(Tail(s)) ELSE s

RECURSIVE rstrip(_)
rstrip(s) == IF s # <<>> /\ s[Len(s)] \in Whitespace
             THEN rstrip(SubSeq(s, 1, Len(s) - 1)) ELSE s

strip(s) == rstrip(lstrip(s))

\* `a` occurs in `s` at position i
HasAt(s, i, a) == i + Len(a) - 1 <= Len(s) /\ SubSeq(s, i, i + Len(a) - 1) = a

\* the `in` operator of str
Contains(a, s) == \E i \in 1..(Len(s) + 1) : HasAt(s, i, a)

\* the string literals of the source, and after them the texts of the
\* documents and prompts sent to it, each under its own name
Txt ==
    [petition |-> <<"p", "e", "t", "i", "t", "i", "o", "n">>,
     affidavit |-> <<"a", "f", "f", "i", "d", "a", "v", "i", "t">>,
     custody |-> <<"c", "u", "s", "t", "o", "d", "y">>,
     child |-> <<"c", "h", "i", "l", "d">>,
     trademark |-> <<"t", "r", "a", "d", "e", "m", "a", "r", "k">>,
     uspto |-> <<"u", "s", "p", "t", "o">>,
     office_action |-> <<"o", "f", "f", "i", "c", "e", " ", "a", "c", "t", "i", "o", "n">>,
     TMEP |-> <<"T", "M", "E", "P">>,
     draft |-> <<"d", "r", "a", "f", "t">>,
     cite |-> <<"c", "i", "t", "e">>,
     using |-> <<"u", "s", "i", "n", "g">>,
     based_on |-> <<"b", "a", "s", "e", "d", " ", "o", "n">>,
     summarize |-> <<"s", "u", "m", "m", "a", "r", "i", "z", "e">>,
     document |-> <<"d", "o", "c", "u", "m", "e", "n", "t">>,
     file |-> <<"f", "i", "l", "e">>,
     report |-> <<"r", "e", "p", "o", "r", "t">>,
     analyze |-> <<"a", "n", "a", "l", "y", "z", "e">>,
     review |-> <<"r", "e", "v", "i", "e", "w">>,
     this |-> <<"t", "h", "i", "s">>,
     a |-> <<"a">>,
     an |-> <<"a", "n">>,
     use |-> <<"u", "s", "e">>,
     law |-> <<"l", "a", "w">>,
     code |-> <<"c", "o", "d", "e">>,
     statute |-> <<"s", "t", "a", "t", "u", "t", "e">>,
     office |-> <<"o", "f", "f", "i", "c", "e">>,
     action |-> <<"a", "c", "t", "i", "o", "n">>,
     Petition |-> <<"P", "e", "t", "i", "t", "i", "o", "n">>,
     USPTO |-> <<"U", "S", "P", "T", "O">>,
     draft_a_response |->
        <<"d", "r", "a", "f", "t", " ", "a", " ", "r", "e", "s", "p", "o", "n", "s", "e">>,
     DRAFT_A_MOTION |-> <<"D", "R", "A", "F", "T", " ", "A", " ", "M", "O", "T", "I", "O", "N">>,
     cite_law |-> <<" ", "c", "i", "t", "e", " ", "l", "a", "w">>,
     summarize_this |-> <<"s", "u", "m", "m", "a", "r", "i", "z", "e", " ", "t", "h", "i", "s">>,
     hello |-> <<"h", "e", "l", "l", "o">>,
     temporary |-> <<"t", "e", "m", "p", "o", "r", "a", "r", "y">>,
     Temporary_orders |->
        <<"T", "e", "m", "p", "o", "r", "a", "r", "y", " ", "o", "r", "d", "e", "r", "s">>,
     custody_petition |->
        <<"c", "u", "s", "t", "o", "d", "y", " ", "p", "e", "t", "i", "t", "i", "o", "n">>]
NineDotted == [k \in 1..9 |-> I_DOT]

(***************************************************************************)
(* Regular expressions (re.search) of the shapes prompt_coach.py uses: a   *)
(* pattern is a sequence of items; "lit" is an alternation of literals,    *)
(* "opt" an optional alternation, "ws" is \s+, "any" is .*                 *)
(***************************************************************************)
Lit(alts) == [kind |-> "lit", alts |-> alts]
Opt(alts) == [kind |-> "opt", alts |-> alts]
Ws == [kind |-> "ws", alts |-> {}]
AnyChars == [kind |-> "any", alts |-> {}]

RECURSIVE MatchAt(_, _, _)
MatchAt(s, i, pat) ==
    IF pat = <<>> THEN TRUE
    ELSE LET h == Head(pat)
             t == Tail(pat)
         IN CASE h.kind = "lit" ->
                    \E a \in h.alts : HasAt(s, i, a) /\ MatchAt(s, i + Len(a), t)
              [] h.kind = "opt" ->
                    \/ \E a \in h.alts : HasAt(s, i, a) /\ MatchAt(s, i + Len(a), t)
                    \/ MatchAt(s, i, t)
              [] h.kind = "ws" ->
                    \E n \in 1..(Len(s) - i + 1) :
                       /\ \A k \in i..(i + n - 1) : s[k] \in Whitespace
                       /\ MatchAt(s, i + n, t)
              [] h.kind = "any" ->
                    \E n \in 0..(Len(s) - i + 1) :
                       /\ \A k \in i..(i + n - 1) : s[k] # "\n"
                       /\ MatchAt(s, i + n, t)

re_search(pat, s) == \E i \in 1..(Len(s) + 1) : MatchAt(s, i, pat)

(***************************************************************************)
(* rag/pipeline.py: auto_tag and get_prompt_coach. Confidences are in      *)
(* hundredths (0.85 is 85).                                                *)
(***************************************************************************)
CONFIDENCE_THRESHOLD == 85
TAGGED_CONFIDENCE == 85
DEFAULT_CONFIDENCE == 65

\* `if cond: tags.append(tag)`
TagIf(cond, tag) == IF cond THEN <<tag>> ELSE <<>>

\* lines 97-114: the tags of a content
AutoTags(content) ==
    LET content_lower == lower(content)
        found == TagIf(Contains(Txt.petition, content_lower), "petition")
                 \o TagIf(Contains(Txt.affidavit, content_lower), "affidavit")
                 \o TagIf(Contains(Txt.custody, content_lower)
                          \/ Contains(Txt.child, content_lower), "custody")
                 \o TagIf(Contains(Txt.trademark, content_lower)
                          \/ Contains(Txt.uspto, content_lower), "trademark")
    IN IF found = <<>> THEN <<"document">> ELSE found

\* (C16) a confidence that does not depend on the tags
TagConfidenceFlat(tags) == DEFAULT_CONFIDENCE

\* line 117
TagConfidence(tags) ==
    IF tags[1] # "document" THEN TAGGED_CONFIDENCE ELSE DEFAULT_CONFIDENCE

auto_tag(content) ==
    [tags |-> AutoTags(content), confidence |-> TagConfidence(AutoTags(content))]

\* the return values of get_prompt_coach; "None" is None
BeSpecific == "Try to be more specific in your request."
AddCitation == "Try adding a citation, e.g., 'cite Texas 153.002'"
WhichDocument == "Specify which document to summarize, e.g., 'summarize the affidavit'"

\* lines 134-145
get_prompt_coach(prompt) ==
    LET prompt_lower == lower(prompt) IN
    IF Len(prompt_lower) < 10 THEN BeSpecific
    ELSE IF /\ Contains(Txt.draft, prompt_lower)
            /\ ~\E word \in {Txt.cite, Txt.using, Txt.based_on} :
                   Contains(word, prompt_lower)
    THEN AddCitation
    ELSE IF /\ Contains(Txt.summarize, prompt_lower)
            /\ ~\E word \in {Txt.document, Txt.file, Txt.report} :
                   Contains(word, prompt_lower)
    THEN WhichDocument
    ELSE "None"

(***************************************************************************)
(* core/prompt_coach.py: PromptCoach                                       *)
(***************************************************************************)
\* self.patterns, in insertion order; a pattern is the set of its top-level
\* alternatives
patterns ==
    <<[category |-> "document_analysis",
       pattern |-> {<<Lit({Txt.summarize, Txt.analyze, Txt.review}), Ws, Lit({Txt.this})>>},
       suggestions |-> <<"Use [document] to summarize key points",
                         "Analyze [document] for [specific_aspect]",
                         "Review [document] and highlight [focus_area]">>],
      [category |-> "legal_drafting",
       pattern |-> {<<Lit({Txt.draft}), Ws, Opt({Txt.a, Txt.an}), AnyChars>>},
       suggestions |-> <<"Draft [document_type] for [client], cite [law]",
                         "Create [document_type] based on [precedent]",
                         "Prepare [document_type] following [template]">>],
      [category |-> "law_citation",
       pattern |-> {<<Lit({Txt.cite, Txt.use}), Ws, Lit({Txt.law, Txt.code, Txt.statute})>>},
       suggestions |-> <<"Use [law] to support [argument]",
                         "Cite [statute] for [legal_point]",
                         "Apply [law] to [situation]">>],
      [category |-> "trademark",
       pattern |-> {<<Lit({Txt.trademark})>>, <<Lit({Txt.office}), Ws, Lit({Txt.action})>>},
       suggestions |-> <<"Review [office_action] for [application]",
                         "Draft response to [office_action], cite [TMEP]",
                         "Analyze [trademark] under [section]">>]>>

\* a rule's pattern is found in s
RuleMatches(k, s) == \E alt \in patterns[k].pattern : re_search(alt, s)

\* (C20) a prompt matched as typed
NormalizeNoLower(prompt) == strip(prompt)

\* line 56: prompt.lower().strip()
Normalize(prompt) == strip(lower(prompt))

\* lines 56-63: the matched rules, in the order of the table
analyze_prompt(prompt) ==
    LET p == Normalize(prompt)
        Matched(k) == RuleMatches(k, p)
    IN SelectSeq([k \in 1..Len(patterns) |-> k], Matched)

\* lines 118-122: the suggestions of the matched rules, each once
RECURSIVE UniqueSuggestions(_, _)
UniqueSuggestions(todo, suggestions) ==
    IF todo = <<>> THEN suggestions
    ELSE UniqueSuggestions(Tail(todo),
            IF \E j \in 1..Len(suggestions) : suggestions[j] = Head(todo)
            THEN suggestions ELSE Append(suggestions, Head(todo)))

RECURSIVE MatchedSuggestions(_)
MatchedSuggestions(matches) ==
    IF matches = <<>> THEN <<>>
    ELSE patterns[Head(matches)].suggestions \o MatchedSuggestions(Tail(matches))

\* a tooltip is its bullet lines; None has none
NoTooltip == [none |-> TRUE, lines |-> <<>>]

\* lines 112-130
get_tooltip(prompt) ==
    LET matches == analyze_prompt(prompt)
        suggestions == UniqueSuggestions(MatchedSuggestions(matches), <<>>)
    IN IF matches = <<>> \/ suggestions = <<>> THEN NoTooltip
       ELSE [none |-> FALSE,
             lines |-> SubSeq(suggestions, 1, Min(3, Len(suggestions)))]

(***************************************************************************)
(* core/auto_tagger.py: DocumentTagger                                     *)
(***************************************************************************)
\* self.patterns: the tags in insertion order with their exemplar phrases
tag_patterns ==
    <<[tag |-> "petition",
       phrases |-> <<"petition for divorce", "custody petition",
                     "motion for temporary orders", "family court",
                     "child support">>],
      [tag |-> "office_action",
       phrases |-> <<"trademark", "office action", "registration number",
                     "serial number", "likelihood of confusion",
                     "section 2(d)", "TMEP">>],
      [tag |-> "example",
       phrases |-> <<"example document", "sample case", "template",
                     "demonstration">>]>>

\* self.nlp(text.lower()): the tokens of a text, its maximal runs of
\* characters other than whitespace
RECURSIVE Tokens(_, _)
Tokens(s, cur) ==
    IF s = <<>> THEN (IF cur = <<>> THEN <<>> ELSE <<cur>>)
    ELSE IF Head(s) \in Whitespace
         THEN (IF cur = <<>> THEN <<>> ELSE <<cur>>) \o Tokens(Tail(s), <<>>)
         ELSE Tokens(Tail(s), Append(cur, Head(s)))

nlp(text) == Tokens(text, <<>>)

\* token.similarity(self.nlp(pattern)) is the word-vector model's: `sim`
\* is the set of [token, tag, phrase, score] where it is not 0; the scores
\* are hundredths, one below CONFIDENCE_THRESHOLD and one equal to it
Scores == {50, 85}
similarity(sim, token, tag, phrase) ==
    IF \E x \in sim : x.token = token /\ x.tag = tag /\ x.phrase = phrase
    THEN (CHOOSE x \in sim : x.token = token /\ x.tag = tag /\ x.phrase = phrase).score
    ELSE 0

Max(S) == CHOOSE x \in S : \A y \in S : y <= x

\* lines 54-61: scores[tag]
TagScore(sim, ntokens, k) ==
    Max({Max({similarity(sim, token, k, phrase) : token \in 1..ntokens}) :
            phrase \in 1..Len(tag_patterns[k].phrases)})

\* (C17) the last of the tags with the highest score
LastBestTag(scores) ==
    CHOOSE k \in 1..Len(scores) :
       /\ \A j \in 1..Len(scores) : scores[j] <= scores[k]
       /\ \A j \in (k + 1)..Len(scores) : scores[j] < scores[k]

\* line 64: max(scores.items(), key=...) is the first of the items with
\* the highest score
BestTag(scores) ==
    CHOOSE k \in 1..Len(scores) :
       /\ \A j \in 1..Len(scores) : scores[j] <= scores[k]
       /\ \A j \in 1..(k - 1) : scores[j] < scores[k]

\* lines 49-67, for a text with tokens
tag_document(sim, ntokens) ==
    LET scores == [k \in 1..Len(tag_patterns) |-> TagScore(sim, ntokens, k)]
    IN [tag |-> tag_patterns[BestTag(scores)].tag,
        confidence |-> scores[BestTag(scores)]]

(***************************************************************************)
(* Requests of the authenticated API (backend/app.py, backend/auth.py)     *)
(***************************************************************************)
\* an Authorization header: the text before and after its first space
NoHeader == [present |-> FALSE, scheme |-> "", rest |-> ""]
Headers == {NoHeader,
            [present |-> TRUE, scheme |-> "Basic", rest |-> "good"],
            [present |-> TRUE, scheme |-> "Bearer", rest |-> "good"],
            [present |-> TRUE, scheme |-> "Bearer", rest |-> "malformed"]}
\* tokens the identity provider can know
ProviderTokens == {"good"}
\* the provider's answer for a token: no user, or a user whose
\* user_metadata holds a role or none ("")
NoUser == [email |-> "", role |-> ""]
ProviderUsers == {NoUser} \cup
                 {[email |-> "a@example.com", role |-> r] : r \in {"admin", "user", ""}}
\* user_data
NoUserData == [user_id |-> "", role |-> "", email |-> ""]
\* bot_id: a prefix of nine characters and the rest
NoBotId == [prefix |-> "", rest |-> ""]
BotIds == {[prefix |-> "template_", rest |-> "1"],
           [prefix |-> "", rest |-> "bot1"]}

(***************************************************************************)
(* State                                                                   *)
(***************************************************************************)
VARIABLES
    documents,          \* table documents: rows [id, content, metadata, created_at]
    document_vectors,   \* table document_vectors: rows [id, document_id, embedding]
    clock,              \* source of uuid_generate_v4() and NOW()
    redis_client,       \* TRUE when the module-level Redis client is connected
    search_cache,       \* Redis keys "search:...": set of [key, value]
    embedding_cache,    \* LocalFileStore("./cache/"): texts with a cached vector
    embed_requests,     \* per text: vectors the embedding service has returned
    ingest,             \* per call number: rows the call has inserted
    calls,              \* calls started so far
    buckets,            \* storage: the buckets [name, public]
    objects,            \* storage: the stored blobs [bucket, path]
    document_records,   \* table documents of the upload backend: rows [name, path, url]
    redis_available,    \* auth.py: TRUE when its Redis client answered the ping
    user_cache,         \* Redis keys "user:{token}": set of [token, value]
    auth_users,         \* identity provider: the user each token stands for
    coach_log,          \* get_tooltip calls so far: set of [prompt, tooltip]
    pc,                 \* per client: position in its handler
    op,                 \* per client: the running call, its arguments and locals
    ret                 \* per client: outcome of its last finished call

vars == <<documents, document_vectors, clock, redis_client, search_cache,
          embedding_cache, embed_requests, ingest, calls,
          buckets, objects, document_records,
          redis_available, user_cache, auth_users, coach_log, pc, op, ret>>

dbVars == <<documents, document_vectors, clock>>
cacheVars == <<redis_client, search_cache>>
embedVars == <<embedding_cache, embed_requests>>
storageVars == <<buckets, objects, document_records>>
ragVars == <<dbVars, cacheVars, embedVars, ingest>>
apiVars == <<redis_available, user_cache, auth_users, coach_log>>

\* uuid_generate_v4(): a fresh identifier
AutoId(n) == "u" \o ToString(n)

\* `after` (delete_document only): the process_document calls that had
\* returned the id being deleted when the delete was called
IdleOp == [name |-> "none", content |-> NoContent, metadata |-> NoMetadata,
           doc_id |-> "", chunks |-> <<>>, i |-> 0, chunk_ids |-> <<>>,
           s_content |-> NoText, s_emb |-> NoEmb, s_id |-> "",
           text |-> NoText, filter |-> {}, top_k |-> 0, qemb |-> NoEmb,
           results |-> <<>>, call |-> 0, failed |-> "none",
           index_empty |-> FALSE, hit |-> FALSE, llm |-> FALSE, after |-> {},
           impl |-> "", bucket |-> "", public |-> FALSE, bucket_exists |-> FALSE,
           file_name |-> "", decodable |-> FALSE, file_path |-> "",
           file_url |-> "", uploaded |-> FALSE,
           create_requests |-> 0, created |-> FALSE,
           contacted |-> FALSE,
           app |-> "", path |-> "", header |-> NoHeader, bot_id |-> NoBotId,
           token |-> "", user |-> NoUserData, cache_reads |-> 0,
           provider_calls |-> 0, handler_ran |-> FALSE,
           cache_errors |-> {}, provider_user |-> NoUser,
           processed |-> FALSE,
           body |-> <<>>, doc_type |-> "", sim |-> {}, tag |-> "",
           confidence |-> 0]

\* status: "ok" (returned) or "raised"; then the fields of the returned value
NoRet == [status |-> "none", error |-> "", id |-> "", answer |-> "",
          docs |-> <<>>, result |-> "", exists |-> FALSE, success |-> FALSE,
          message |-> "", file_path |-> "", file_url |-> "",
          code |-> 0, tags |-> <<>>, tag |-> "", confidence |-> 0,
          tooltip |-> NoTooltip, user |-> NoUserData, citation |-> "",
          op |-> IdleOp]

\* rows a call has inserted (by created_at / id) and the id it returned
NoIngest == [docs |-> {}, vecs |-> {}, ret |-> ""]

\* the store, the pipeline and the storage service
InitBackend ==
    /\ documents = {}
    /\ document_vectors = {}
    /\ clock = 1
    /\ redis_client \in BOOLEAN
    /\ search_cache = {}
    /\ embedding_cache = {}
    /\ embed_requests = [t \in AllTexts |-> 0]
    /\ ingest = [n \in CallNumbers |-> NoIngest]
    /\ calls = 0
    /\ buckets = {}
    /\ objects = {}
    /\ document_records = {}
    /\ pc = [p \in Procs |-> "idle"]
    /\ op = [p \in Procs |-> IdleOp]
    /\ ret = [p \in Procs |-> NoRet]

Init ==
    /\ InitBackend
    /\ redis_available = FALSE
    /\ user_cache = {}
    /\ auth_users = [t \in ProviderTokens |-> NoUser]
    /\ coach_log = {}

\* the authenticated API: Redis answered the ping of auth.py or not, and
\* the provider knows the token's user or not
InitAuth ==
    /\ InitBackend
    /\ redis_client = FALSE
    /\ redis_available \in BOOLEAN
    /\ user_cache = {}
    /\ auth_users \in [ProviderTokens -> ProviderUsers]
    /\ coach_log = {}

\* the text functions and the ingestion flow, which use no search cache
InitText == Init /\ redis_client = FALSE

(***************************************************************************)
(* Call and return                                                         *)
(***************************************************************************)
\* the handler of p ends by raising `err`
Raise(p, err, o) ==
    /\ pc' = [pc EXCEPT ![p] = "idle"]
    /\ op' = [op EXCEPT ![p] = IdleOp]
    /\ ret' = [ret EXCEPT ![p] = [NoRet EXCEPT !.status = "raised",
                                               !.error = err, !.op = o]]

\* the handler of p ends by returning `r` (a NoRet with the result fields set)
Return(p, r, o) ==
    /\ pc' = [pc EXCEPT ![p] = "idle"]
    /\ op' = [op EXCEPT ![p] = IdleOp]
    /\ ret' = [ret EXCEPT ![p] = [r EXCEPT !.status = "ok", !.op = o]]

\* p starts the call `o` at label `l`
Start(p, o, l) ==
    /\ pc[p] = "idle"
    /\ calls' = calls + 1
    /\ pc' = [pc EXCEPT ![p] = l]
    /\ op' = [op EXCEPT ![p] = [o EXCEPT !.call = calls + 1]]
    /\ UNCHANGED ret

(***************************************************************************)
(* Database schema (init_db.py)                                            *)
(***************************************************************************)
\* documents.id UUID PRIMARY KEY
PrimaryKeyFree(id) == \A r \in documents : r.id # id

\* (C3) a schema without the foreign key
ForeignKeyNotEnforced(document_id) == TRUE

\* FOREIGN KEY (document_id) REFERENCES documents(id)
ForeignKeyHolds(document_id) == \E r \in documents : r.id = document_id

\* embedding VECTOR(1536) NOT NULL
EmbeddingColumnAccepts(e) == e.dim = VECTOR_DIMENSION

\* ON DELETE CASCADE: the vectors left when the documents `ids` are deleted
CascadeDelete(ids) == {v \in document_vectors : v.document_id \notin ids}

(***************************************************************************)
(* SupabaseVectorStore.store_document                                      *)
(***************************************************************************)
CallStoreDocument(p, content, metadata, embeddings, doc_id) ==
    /\ Start(p, [IdleOp EXCEPT !.name = "store_document",
                               !.metadata = metadata, !.doc_id = doc_id,
                               !.s_content = content, !.s_emb = embeddings],
             "sd_check")
    /\ UNCHANGED <<apiVars, storageVars, dbVars, cacheVars, embedVars, ingest>>

\* (C4) store_document without its length check
DimensionUnchecked(embeddings) == TRUE

\* len(embeddings) != VECTOR_DIMENSION raises ValueError
DimensionOk(embeddings) == embeddings.dim = VECTOR_DIMENSION

\* line 43: the dimension check
SdCheckRaise(p) ==
    /\ pc[p] = "sd_check"
    /\ ~DimensionOk(op[p].s_emb)
    /\ Raise(p, "ValueError", op[p])
    /\ UNCHANGED <<apiVars, storageVars, dbVars, cacheVars, embedVars, ingest, calls>>

SdCheckPass(p) ==
    /\ pc[p] = "sd_check"
    /\ DimensionOk(op[p].s_emb)
    /\ pc' = [pc EXCEPT ![p] = "sd_insert_doc"]
    /\ UNCHANGED <<apiVars, storageVars, dbVars, cacheVars, embedVars, ingest, calls, op, ret>>

\* lines 47-55: insert into documents, the id is the given one or a fresh uuid
SdInsertDoc(p) ==
    /\ pc[p] = "sd_insert_doc"
    /\ clock <= MaxRows
    /\ LET id == IF op[p].doc_id # "" THEN op[p].doc_id ELSE AutoId(clock)
           row == [id |-> id, content |-> op[p].s_content,
                   metadata |-> op[p].metadata, created_at |-> clock]
       IN /\ PrimaryKeyFree(id)
          /\ documents' = documents \cup {row}
          /\ op' = [op EXCEPT ![p].s_id = id]
          /\ ingest' = [ingest EXCEPT ![op[p].call].docs = @ \cup {clock}]
    /\ clock' = clock + 1
    /\ pc' = [pc EXCEPT ![p] = "sd_insert_vec"]
    /\ UNCHANGED <<apiVars, storageVars, document_vectors, cacheVars, embedVars, calls, ret>>

\* the insert raises: duplicate primary key, or the store is unreachable
SdInsertDocRaise(p) ==
    /\ pc[p] = "sd_insert_doc"
    /\ \E err \in {"duplicate key", "store unavailable"} :
          /\ err = "duplicate key" =>
                 (op[p].doc_id # "" /\ ~PrimaryKeyFree(op[p].doc_id))
          /\ Raise(p, err, op[p])
    /\ UNCHANGED <<apiVars, storageVars, dbVars, cacheVars, embedVars, ingest, calls>>

\* what the caller of store_document does with the returned id:
\* a direct call returns it; process_document appends it and goes on
\* with the next chunk, or returns chunk_ids[0] after the last one
SdReturn(p, id) ==
    IF op[p].name = "store_document"
    THEN Return(p, [NoRet EXCEPT !.id = id], [op[p] EXCEPT !.s_id = id])
    ELSE LET ids == Append(op[p].chunk_ids, id) IN
         IF op[p].i < Len(op[p].chunks)
         THEN /\ op' = [op EXCEPT ![p].chunk_ids = ids,
                                  ![p].i = @ + 1,
                                  ![p].s_content = op[p].chunks[op[p].i + 1],
                                  ![p].s_emb = Embed(op[p].chunks[op[p].i + 1]),
                                  ![p].s_id = ""]
              /\ pc' = [pc EXCEPT ![p] = "sd_check"]
              /\ UNCHANGED ret
         ELSE Return(p, [NoRet EXCEPT !.id = ids[1]],
                     [op[p] EXCEPT !.chunk_ids = ids])

\* lines 58-64: insert into document_vectors and return the id
SdInsertVec(p) ==
    /\ pc[p] = "sd_insert_vec"
    /\ clock <= MaxRows
    /\ ForeignKeyHolds(op[p].s_id)
    /\ EmbeddingColumnAccepts(op[p].s_emb)
    /\ document_vectors' = document_vectors \cup
           {[id |-> AutoId(clock), document_id |-> op[p].s_id,
             embedding |-> op[p].s_emb]}
    /\ ingest' = [ingest EXCEPT
           ![op[p].call].vecs = @ \cup {AutoId(clock)},
           ![op[p].call].ret =
               IF op[p].name = "process_document" /\ op[p].i = Len(op[p].chunks)
               THEN Append(op[p].chunk_ids, op[p].s_id)[1] ELSE @]
    /\ clock' = clock + 1
    /\ SdReturn(p, op[p].s_id)
    /\ UNCHANGED <<apiVars, storageVars, documents, cacheVars, embedVars, calls>>

\* the insert raises: the schema rejects the row, or the store is unreachable
SdInsertVecRaise(p) ==
    /\ pc[p] = "sd_insert_vec"
    /\ \E err \in {"foreign key violation", "wrong dimension", "store unavailable"} :
          /\ err = "foreign key violation" => ~ForeignKeyHolds(op[p].s_id)
          /\ err = "wrong dimension" => ~EmbeddingColumnAccepts(op[p].s_emb)
          /\ Raise(p, err, op[p])
    /\ UNCHANGED <<apiVars, storageVars, dbVars, cacheVars, embedVars, ingest, calls>>

(***************************************************************************)
(* SupabaseVectorStore.delete_document                                     *)
(***************************************************************************)
CallDeleteDocument(p, doc_id) ==
    /\ Start(p, [IdleOp EXCEPT
                    !.name = "delete_document", !.doc_id = doc_id,
                    !.after = {n \in CallNumbers : ingest[n].ret = doc_id}],
             "del_vectors")
    /\ UNCHANGED <<apiVars, storageVars, dbVars, cacheVars, embedVars, ingest>>

\* lines 141-144: delete from document_vectors where document_id = doc_id
DelVectors(p) ==
    /\ pc[p] = "del_vectors"
    /\ document_vectors' = {v \in document_vectors : v.document_id # op[p].doc_id}
    /\ pc' = [pc EXCEPT ![p] = "del_document"]
    /\ UNCHANGED <<apiVars, storageVars, documents, clock, cacheVars, embedVars, ingest, calls, op, ret>>

\* lines 146-149: delete from documents where id = doc_id (cascading)
DelDocument(p) ==
    /\ pc[p] = "del_document"
    /\ documents' = {r \in documents : r.id # op[p].doc_id}
    /\ document_vectors' = CascadeDelete({op[p].doc_id})
    /\ Return(p, NoRet, op[p])
    /\ UNCHANGED <<apiVars, storageVars, clock, cacheVars, embedVars, ingest, calls>>

\* either delete raises: the store is unreachable
DelRaise(p) ==
    /\ pc[p] \in {"del_vectors", "del_document"}
    /\ Raise(p, "store unavailable", [op[p] EXCEPT !.failed = pc[p]])
    /\ UNCHANGED <<apiVars, storageVars, dbVars, cacheVars, embedVars, ingest, calls>>

(***************************************************************************)
(* RAGPipeline.process_document                                            *)
(***************************************************************************)
CallProcessDocument(p, content, metadata, doc_id) ==
    /\ Start(p, [IdleOp EXCEPT !.name = "process_document", !.content = content,
                               !.metadata = metadata, !.doc_id = doc_id],
             "pd_embed")
    /\ UNCHANGED <<apiVars, storageVars, dbVars, cacheVars, embedVars, ingest>>

\* the elements of a sequence
Range(s) == {s[i] : i \in 1..Len(s)}

\* CacheBackedEmbeddings.embed_documents: the texts with no vector in the
\* document_embedding_cache are the ones sent to the embedding service
MissingTexts(texts) == texts \ embedding_cache

\* lines 67-71: split, embed the chunks (through the cache), start the loop;
\* with no chunks the loop is skipped and chunk_ids[0] raises IndexError
PdEmbed(p) ==
    /\ pc[p] = "pd_embed"
    /\ LET chunks == split_text(op[p].content)
           missing == MissingTexts(Range(chunks))
       IN /\ embed_requests' = [t \in AllTexts |->
                 IF t \in missing THEN embed_requests[t] + 1 ELSE embed_requests[t]]
          /\ embedding_cache' = embedding_cache \cup missing
          /\ IF chunks = <<>>
             THEN Raise(p, "IndexError", op[p])
             ELSE /\ op' = [op EXCEPT ![p].chunks = chunks, ![p].i = 1,
                                      ![p].s_content = chunks[1],
                                      ![p].s_emb = Embed(chunks[1])]
                  /\ pc' = [pc EXCEPT ![p] = "sd_check"]
                  /\ UNCHANGED ret
    /\ UNCHANGED <<apiVars, storageVars, dbVars, cacheVars, ingest, calls>>

\* the embedding service raises (it is only called for missing texts)
PdEmbedRaise(p) ==
    /\ pc[p] = "pd_embed"
    /\ MissingTexts(Range(split_text(op[p].content))) # {}
    /\ Raise(p, "embedding unavailable", [op[p] EXCEPT !.failed = "embedding"])
    /\ UNCHANGED <<apiVars, storageVars, dbVars, cacheVars, embedVars, ingest, calls>>

(***************************************************************************)
(* SupabaseVectorStore.similarity_search                                   *)
(***************************************************************************)
CallSimilaritySearch(p, query_embedding, top_k, metadata_filter) ==
    /\ Start(p, [IdleOp EXCEPT !.name = "similarity_search",
                               !.qemb = query_embedding, !.top_k = top_k,
                               !.filter = metadata_filter],
             "search")
    /\ UNCHANGED <<apiVars, storageVars, dbVars, cacheVars, embedVars, ingest>>

\* line 78: f"search:{md5(str(query_embedding))}:{top_k}:{str(metadata_filter)}"
CacheKey(o) == [embedding |-> o.qemb, top_k |-> o.top_k, filter |-> o.filter]

\* lines 115-122: the dictionary built from a documents row
Doc(r) == [content |-> r.content, metadata |-> r.metadata, id |-> r.id]

\* the orders in which a SELECT without ORDER BY can return the rows S
RECURSIVE Orderings(_)
Orderings(S) ==
    IF S = {} THEN {<<>>}
    ELSE UNION {{<<x>> \o s : s \in Orderings(S \ {x})} : x \in S}

\* lines 100-103: select("document_id").limit(top_k): the sets of rows
\* that a LIMIT without ORDER BY can return
LimitedVectorRows(top_k) ==
    {S \in SUBSET document_vectors :
        Cardinality(S) = Min(top_k, Cardinality(document_vectors))}

\* lines 110-113: select("*").in_("id", doc_ids)
DocumentsIn(doc_ids) == {r \in documents : r.id \in doc_ids}

\* the fixed answer of query() when nothing was retrieved (lines 111-117)
NoInformation == "I couldn't find any relevant information"

\* lines 144-150: the sources returned with a generated answer
Sources(docs) == [i \in 1..Len(docs) |->
                     [content |-> docs[i].content, metadata |-> docs[i].metadata]]

\* what the caller of similarity_search does with the list `docs`:
\* a direct call returns it; query() answers at once when it is empty
\* (lines 110-117) and goes on to the language model otherwise
SearchReturn(p, docs, o) ==
    IF o.name = "similarity_search"
    THEN Return(p, [NoRet EXCEPT !.docs = docs], [o EXCEPT !.results = docs])
    ELSE IF docs = <<>>
    THEN Return(p, [NoRet EXCEPT !.answer = NoInformation, !.docs = <<>>],
                [o EXCEPT !.results = docs])
    ELSE /\ op' = [op EXCEPT ![p] = [o EXCEPT !.results = docs]]
         /\ pc' = [pc EXCEPT ![p] = "q_llm"]
         /\ UNCHANGED ret

\* lines 73-81: the search key is cached and Redis answers
SearchCacheHit(p) ==
    /\ pc[p] = "search"
    /\ redis_client
    /\ \E e \in search_cache :
          /\ e.key = CacheKey(op[p])
          /\ SearchReturn(p, e.value,
                 [op[p] EXCEPT !.hit = TRUE,
                               !.index_empty = (document_vectors = {})])
    /\ UNCHANGED <<apiVars, storageVars, dbVars, cacheVars, embedVars, ingest, calls>>

\* lines 85-137: nothing from the cache (no client, no entry, or the read
\* raised); both selects succeed; the list is cached when it is not empty
\* and the write does not raise
SearchStore(p) ==
    /\ pc[p] = "search"
    /\ \E S \in LimitedVectorRows(op[p].top_k) :
       \E docs \in Orderings({Doc(r) : r \in DocumentsIn({v.document_id : v \in S})}) :
       \E written \in BOOLEAN :
          /\ written => (redis_client /\ docs # <<>>)
          /\ search_cache' =
                IF written
                THEN {e \in search_cache : e.key # CacheKey(op[p])}
                        \cup {[key |-> CacheKey(op[p]), value |-> docs]}
                ELSE search_cache
          /\ SearchReturn(p, docs,
                 [op[p] EXCEPT !.index_empty = (document_vectors = {})])
    /\ UNCHANGED <<apiVars, storageVars, dbVars, redis_client, embedVars, ingest, calls>>

\* lines 126-128: a select raises; the exception is printed and the result
\* is the empty list (which is never cached)
SearchStoreRaise(p) ==
    /\ pc[p] = "search"
    /\ SearchReturn(p, <<>>,
           [op[p] EXCEPT !.failed = "store",
                         !.index_empty = (document_vectors = {})])
    /\ UNCHANGED <<apiVars, storageVars, dbVars, cacheVars, embedVars, ingest, calls>>

\* setex(cache_key, 3600, ...): an entry expires
CacheExpire ==
    /\ \E e \in search_cache : search_cache' = search_cache \ {e}
    /\ UNCHANGED <<apiVars, storageVars, dbVars, redis_client, embedVars, ingest, calls, pc, op, ret>>

(***************************************************************************)
(* RAGPipeline.query                                                       *)
(***************************************************************************)
CallQuery(p, query, metadata_filter) ==
    /\ Start(p, [IdleOp EXCEPT !.name = "query", !.text = query,
                               !.filter = metadata_filter,
                               !.top_k = DefaultTopK],
             "q_embed")
    /\ UNCHANGED <<apiVars, storageVars, dbVars, cacheVars, embedVars, ingest>>

\* line 102: CacheBackedEmbeddings.embed_query; no query_embedding_cache was
\* configured (lines 43-47), so the text goes to the embedding service
QEmbed(p) ==
    /\ pc[p] = "q_embed"
    /\ embed_requests' = [embed_requests EXCEPT ![op[p].text] = @ + 1]
    /\ op' = [op EXCEPT ![p].qemb = Embed(op[p].text)]
    /\ pc' = [pc EXCEPT ![p] = "search"]
    /\ UNCHANGED <<apiVars, storageVars, dbVars, cacheVars, embedding_cache, ingest, calls, ret>>

QEmbedRaise(p) ==
    /\ pc[p] = "q_embed"
    /\ Raise(p, "embedding unavailable", [op[p] EXCEPT !.failed = "embedding"])
    /\ UNCHANGED <<apiVars, storageVars, dbVars, cacheVars, embedVars, ingest, calls>>

\* lines 135-151: the completion is returned with the sources
QLlm(p) ==
    /\ pc[p] = "q_llm"
    /\ Return(p, [NoRet EXCEPT !.answer = "generated",
                               !.docs = Sources(op[p].results)],
              [op[p] EXCEPT !.llm = TRUE])
    /\ UNCHANGED <<apiVars, storageVars, dbVars, cacheVars, embedVars, ingest, calls>>

\* client.chat.completions.create raises
QLlmRaise(p) ==
    /\ pc[p] = "q_llm"
    /\ Raise(p, "model unavailable", [op[p] EXCEPT !.failed = "llm", !.llm = TRUE])
    /\ UNCHANGED <<apiVars, storageVars, dbVars, cacheVars, embedVars, ingest, calls>>

(***************************************************************************)
(* storage_service.create_bucket (with check_bucket_exists)                *)
(***************************************************************************)
BucketNames == {b.name : b \in buckets}

CallCreateBucket(p, bucket_name, public) ==
    /\ Start(p, [IdleOp EXCEPT !.name = "create_bucket", !.impl = "service",
                               !.bucket = bucket_name, !.public = public],
             "cb_check")
    /\ UNCHANGED <<apiVars, ragVars, storageVars>>

\* (C24) an upload_file that reports a failed blob upload as a success
UploadFailedAsSuccess(o) ==
    [NoRet EXCEPT !.success = TRUE, !.message = "File uploaded successfully"]

\* storage_service.upload_file lines 196-199 / main.py line 444
UploadFailedResponse(o) ==
    [NoRet EXCEPT !.success = FALSE,
                  !.error = IF o.impl = "service" THEN "File upload failed"
                            ELSE "Failed to upload file"]

\* what the caller of create_bucket does with the returned dictionary:
\* a direct call returns it; upload_file (lines 169-177) gives up when the
\* status is "error" and uploads otherwise
CbReturn(p, result, exists, o) ==
    IF o.name = "create_bucket"
    THEN Return(p, [NoRet EXCEPT !.result = result, !.exists = exists], o)
    ELSE IF result = "error"
    THEN Return(p, [NoRet EXCEPT !.success = FALSE,
                        !.error = "Failed to ensure storage bucket exists"],
                [o EXCEPT !.failed = "bucket"])
    ELSE /\ pc' = [pc EXCEPT ![p] = "uf_upload"]
         /\ op' = [op EXCEPT ![p] = o]
         /\ UNCHANGED ret

\* lines 72-84: check_bucket_exists lists the buckets (or fails, and then
\* reports that the bucket does not exist); an existing bucket is success.
\* This is the first call to the storage that create_bucket and upload_file
\* make: `contacted` records it
CbCheck(p) ==
    /\ pc[p] = "cb_check"
    /\ \E listed \in BOOLEAN :
          LET bucket_exists == listed /\ op[p].bucket \in BucketNames
              o == [op[p] EXCEPT !.bucket_exists = bucket_exists,
                                 !.contacted = TRUE]
          IN IF bucket_exists
             THEN CbReturn(p, "success", TRUE, o)
             ELSE /\ pc' = [pc EXCEPT ![p] = "cb_create"]
                  /\ op' = [op EXCEPT ![p] = o]
                  /\ UNCHANGED ret
    /\ UNCHANGED <<apiVars, ragVars, storageVars, calls>>

\* line 88: storage.create_bucket(bucket_name) creates the (private) bucket
CbCreate(p) ==
    /\ pc[p] = "cb_create"
    /\ op[p].bucket \notin BucketNames
    /\ buckets' = buckets \cup {[name |-> op[p].bucket, public |-> FALSE]}
    /\ LET o == [op[p] EXCEPT !.create_requests = @ + 1, !.created = TRUE] IN
       IF o.public
       THEN /\ pc' = [pc EXCEPT ![p] = "cb_update"]
            /\ op' = [op EXCEPT ![p] = o]
            /\ UNCHANGED ret
       ELSE CbReturn(p, "success", FALSE, o)
    /\ UNCHANGED <<apiVars, ragVars, objects, document_records, calls>>

\* (C23) a create_bucket that takes no error for a duplicate
IsDuplicateNever(error_str) == FALSE

\* line 107: "already exists" in error_str or "duplicate" in error_str
IsDuplicate(error_str) == error_str \in {"already exists", "duplicate"}

\* lines 88, 103-122: storage.create_bucket raises; a duplicate is success,
\* the rest is an error; `failed` records a failure of the storage other
\* than the duplicate
CbCreateRaise(p) ==
    /\ pc[p] = "cb_create"
    /\ \E err \in {"duplicate", "storage unavailable"} :
          LET o == [op[p] EXCEPT !.create_requests = @ + 1,
                                 !.failed = IF err = "duplicate" THEN @
                                            ELSE "create"] IN
          /\ err = "duplicate" => op[p].bucket \in BucketNames
          /\ IF IsDuplicate(err)
             THEN CbReturn(p, "success", TRUE, o)
             ELSE CbReturn(p, "error", FALSE, o)
    /\ UNCHANGED <<apiVars, ragVars, storageVars, calls>>

\* lines 91-102: update_bucket(bucket_name, {'public': True})
CbUpdate(p) ==
    /\ pc[p] = "cb_update"
    /\ buckets' = {IF b.name = op[p].bucket THEN [b EXCEPT !.public = TRUE] ELSE b :
                     b \in buckets}
    /\ CbReturn(p, "success", FALSE, op[p])
    /\ UNCHANGED <<apiVars, ragVars, objects, document_records, calls>>

\* update_bucket raises: the except branch of lines 103-122 reports an error
CbUpdateRaise(p) ==
    /\ pc[p] = "cb_update"
    /\ CbReturn(p, "error", FALSE, [op[p] EXCEPT !.failed = "update"])
    /\ UNCHANGED <<apiVars, ragVars, storageVars, calls>>

(***************************************************************************)
(* upload_file: storage_service.py (impl "service") and main.py            *)
(* (impl "main")                                                           *)
(***************************************************************************)
FileNames == {"my file.pdf"}
Impls == {"service", "main"}

\* file_name.replace(' ', '_')
SafeFilename(file_name) ==
    IF file_name = "my file.pdf" THEN "my_file.pdf" ELSE file_name

\* "{timestamp}_{unique_id}_{safe_filename}"
FilePath(n, file_name) == ToString(n) \o "_" \o SafeFilename(file_name)

CallUploadFile(p, impl, file_name, decodable) ==
    /\ Start(p, [IdleOp EXCEPT !.name = "upload_file", !.impl = impl,
                               !.file_name = file_name, !.decodable = decodable],
             "uf_decode")
    /\ UNCHANGED <<apiVars, ragVars, storageVars>>

\* lines 150-159: base64.b64decode raises
UfDecodeRaise(p) ==
    /\ pc[p] = "uf_decode"
    /\ ~op[p].decodable
    /\ Return(p, [NoRet EXCEPT !.success = FALSE,
                               !.error = "Failed to decode file content"],
              [op[p] EXCEPT !.failed = "decode"])
    /\ UNCHANGED <<apiVars, ragVars, storageVars, calls>>

\* lines 150-169: decode, make the unique path, go on to ensure the bucket
UfDecode(p) ==
    /\ pc[p] = "uf_decode"
    /\ op[p].decodable
    /\ op' = [op EXCEPT ![p].file_path = FilePath(clock, op[p].file_name),
                        ![p].bucket = "documents",
                        ![p].public = TRUE]
    /\ clock' = clock + 1
    /\ pc' = [pc EXCEPT ![p] = IF op[p].impl = "service" THEN "cb_check"
                               ELSE "mb_check"]
    /\ UNCHANGED <<apiVars, documents, document_vectors, cacheVars, embedVars,
                   ingest, storageVars, calls, ret>>

\* main.py lines 338-356, 364-370: list the buckets; an exception is only
\* printed; a missing bucket (or an unexpected answer) leads to its creation
MbCheck(p) ==
    /\ pc[p] = "mb_check"
    /\ \E answer \in {"list", "unexpected", "raise"} :
          LET bucket_exists == answer = "list" /\ "documents" \in BucketNames IN
          /\ op' = [op EXCEPT ![p].bucket_exists = bucket_exists,
                              ![p].contacted = TRUE]
          /\ pc' = [pc EXCEPT ![p] = IF answer = "raise" \/ bucket_exists
                                     THEN "uf_upload" ELSE "mb_create"]
    /\ UNCHANGED <<apiVars, ragVars, storageVars, calls, ret>>

\* main.py line 360: create_bucket('documents', {'public': True})
MbCreate(p) ==
    /\ pc[p] = "mb_create"
    /\ "documents" \notin BucketNames
    /\ buckets' = buckets \cup {[name |-> "documents", public |-> TRUE]}
    /\ pc' = [pc EXCEPT ![p] = "uf_upload"]
    /\ UNCHANGED <<apiVars, ragVars, objects, document_records, calls, op, ret>>

\* main.py lines 364-370: the creation raises; the upload is tried anyway
MbCreateRaise(p) ==
    /\ pc[p] = "mb_create"
    /\ pc' = [pc EXCEPT ![p] = "uf_upload"]
    /\ UNCHANGED <<apiVars, ragVars, storageVars, calls, op, ret>>

\* lines 182-201: bucket.upload stores the blob
UfUpload(p) ==
    /\ pc[p] = "uf_upload"
    /\ "documents" \in BucketNames
    /\ objects' = objects \cup {[bucket |-> "documents", path |-> op[p].file_path]}
    /\ op' = [op EXCEPT ![p].uploaded = TRUE]
    /\ pc' = [pc EXCEPT ![p] = "uf_url"]
    /\ UNCHANGED <<apiVars, ragVars, buckets, document_records, calls, ret>>

\* lines 192-199: the upload raises or reports an error
UfUploadRaise(p) ==
    /\ pc[p] = "uf_upload"
    /\ \E err \in {"bucket not found", "storage unavailable"} :
          /\ err = "bucket not found" => "documents" \notin BucketNames
          /\ Return(p, UploadFailedResponse(op[p]), [op[p] EXCEPT !.failed = "upload"])
    /\ UNCHANGED <<apiVars, ragVars, storageVars, calls>>

\* lines 204-213: the signed (main.py: public) URL, or the fallback URL when
\* the call raises
UfUrl(p) ==
    /\ pc[p] = "uf_url"
    /\ \E generated \in BOOLEAN :
          op' = [op EXCEPT ![p].file_url =
                    IF generated THEN "https://storage/" \o op[p].file_path
                    ELSE "/documents/" \o op[p].file_path]
    /\ pc' = [pc EXCEPT ![p] = "uf_insert"]
    /\ UNCHANGED <<apiVars, ragVars, storageVars, calls, ret>>

\* lines 237-243
UploadedResponse(o) ==
    [NoRet EXCEPT !.success = TRUE, !.file_path = o.file_path,
                  !.file_url = o.file_url,
                  !.message = "File uploaded successfully"]

\* (C10) an upload_file that reports the failed insert as a failure
InsertFailedRollback(o) ==
    [NoRet EXCEPT !.success = FALSE, !.error = "Database insert failed"]

\* lines 245-255: the response when the insert raised
InsertFailedResponse(o) ==
    [NoRet EXCEPT !.success = TRUE, !.file_path = o.file_path,
                  !.file_url = o.file_url,
                  !.message = "File uploaded successfully, but database record creation failed"]

\* (C27) a record filed under the name of the file
DocumentDataByName(o) ==
    [name |-> o.file_name, path |-> o.file_name, url |-> o.file_url]

\* lines 218-230 (main.py lines 404-416): document_data
DocumentData(o) ==
    [name |-> o.file_name, path |-> o.file_path, url |-> o.file_url]

\* lines 216-243: insert the documents record and report success
UfInsert(p) ==
    /\ pc[p] = "uf_insert"
    /\ document_records' = document_records \cup {DocumentData(op[p])}
    /\ Return(p, UploadedResponse(op[p]), op[p])
    /\ UNCHANGED <<apiVars, ragVars, buckets, objects, calls>>

\* lines 245-255: the insert raises; nothing is undone
UfInsertRaise(p) ==
    /\ pc[p] = "uf_insert"
    /\ Return(p, InsertFailedResponse(op[p]), [op[p] EXCEPT !.failed = "insert"])
    /\ UNCHANGED <<apiVars, ragVars, storageVars, calls>>

(***************************************************************************)
(* backend/main.py: POST /api/check-bucket-exists                          *)
(***************************************************************************)
\* the names that are bound when line 196 of main.py runs: the parameter
\* and the local variable of check_bucket_exists (lines 186, 190) and the
\* global of the module that holds the Supabase client (line 24)
NamesAtGetBucket == {"request", "supabase_client", "supabase"}

CallCheckBucketExists(p, bucket_name) ==
    /\ Start(p, [IdleOp EXCEPT !.name = "check_bucket_exists", !.impl = "main",
                               !.bucket = bucket_name],
             "mc_check")
    /\ UNCHANGED <<apiVars, ragVars, storageVars>>

\* lines 190, 26-50, 207-212: get_supabase_client raises (no credentials,
\* or create_client fails)
McClientRaise(p) ==
    /\ pc[p] = "mc_check"
    /\ Return(p, [NoRet EXCEPT !.result = "error",
                               !.error = "Missing Supabase credentials"],
              [op[p] EXCEPT !.failed = "client"])
    /\ UNCHANGED <<apiVars, ragVars, storageVars, calls>>

\* lines 190-206: the client is there; line 196 evaluates
\* `client.storage.get_bucket(request.bucketName)`: a name that is not
\* bound raises NameError, get_bucket raises for a bucket that does not
\* exist or when the storage fails; every exception is caught at line 199
\* and gives bucket_exists = False. `bucket_exists` of op records whether
\* the bucket was in the storage at that moment
McGetBucket(p) ==
    /\ pc[p] = "mc_check"
    /\ \E answered \in (IF "client" \in NamesAtGetBucket THEN BOOLEAN ELSE {FALSE}) :
          LET there == op[p].bucket \in BucketNames
              bucket_exists == answered /\ there
          IN Return(p, [NoRet EXCEPT !.result = "success", !.exists = bucket_exists],
                    [op[p] EXCEPT !.bucket_exists = there,
                                  !.contacted = answered])
    /\ UNCHANGED <<apiVars, ragVars, storageVars, calls>>

(***************************************************************************)
(* backend/auth.py and backend/app.py: authentication of a request         *)
(***************************************************************************)
\* the two FastAPI applications
Apps == {"app", "auth"}
\* auth.py line 87
PublicRoutes == {"/", "/health", "/docs"}
\* app.py: the routes that declare Depends(get_current_user)
DependentRoutes == {"/api/rag", "/api/upload", "/api/auto-tag", "/api/prompt-coach"}
\* the routes of each application that requests are sent to
Paths(app) == IF app = "app"
              THEN {"/", "/health", "/docs", "/api/rag", "/api/auto-tag",
                    "/api/prompt-coach"}
              ELSE {"/", "/health", "/docs", "/api/bot/{bot_id}"}

\* (C14) a middleware with no public route
IsPublicNever(path) == FALSE

\* auth.py line 87
IsPublic(path) == path \in PublicRoutes

\* the request runs get_current_user (app.py) or the token check of
\* auth_middleware (auth.py)
Protected(o) == IF o.app = "app" THEN o.path \in DependentRoutes
                ELSE ~IsPublic(o.path)

\* where the authentication of the request runs
AuthLayer(o) == IF o.app = "app" THEN "dependency" ELSE "middleware"

\* `not auth_header or not auth_header.startswith("Bearer ")`
BearerHeader(h) == h.present /\ h.scheme = "Bearer"

\* jwt.decode(token, options={"verify_signature": False}) raises
\* InvalidTokenError on a string that is no JWT
WellFormed(token) == token # "malformed"

\* decoded.get("sub")
Sub(token) == "sub-" \o token

\* str(user_data) as stored in Redis, and eval() of it
Str(user_data) == [repr |-> user_data]
Eval(cached) == cached.repr

\* the status the client receives for an HTTPException: the exception
\* handlers serve the router (routes and their dependencies); an exception
\* raised by the function of @app.middleware("http") passes outside them
\* and the server answers 500
ResponseCode(layer, status_code) ==
    IF layer = "middleware" THEN 500 ELSE status_code

\* the request of p ends with an HTTPException raised in `layer`
RaiseHttp(p, layer, status_code, detail, o) ==
    /\ pc' = [pc EXCEPT ![p] = "idle"]
    /\ op' = [op EXCEPT ![p] = IdleOp]
    /\ ret' = [ret EXCEPT ![p] =
                 [NoRet EXCEPT !.status = "raised",
                               !.code = ResponseCode(layer, status_code),
                               !.error = detail, !.op = o]]

\* the request of p ends with the response `r` of its handler
Respond(p, r, o) ==
    /\ pc' = [pc EXCEPT ![p] = "idle"]
    /\ op' = [op EXCEPT ![p] = IdleOp]
    /\ ret' = [ret EXCEPT ![p] = [r EXCEPT !.status = "ok", !.code = 200, !.op = o]]

CallRequest(p, app, path, header, bot_id, body) ==
    /\ Start(p, [IdleOp EXCEPT !.name = "request", !.app = app, !.path = path,
                               !.header = header, !.bot_id = bot_id,
                               !.body = body], "auth")
    /\ UNCHANGED <<apiVars, ragVars, storageVars>>

\* auth.py lines 87-89 (public route), app.py (route without the
\* dependency): the handler runs with no authentication
ReqPublic(p) ==
    /\ pc[p] = "auth"
    /\ ~Protected(op[p])
    /\ pc' = [pc EXCEPT ![p] = "handler"]
    /\ UNCHANGED <<apiVars, ragVars, storageVars, calls, op, ret>>

\* auth.py lines 92-94, app.py lines 84-86
ReqNoBearer(p) ==
    /\ pc[p] = "auth"
    /\ Protected(op[p])
    /\ ~BearerHeader(op[p].header)
    /\ RaiseHttp(p, AuthLayer(op[p]), 401, "Bearer token required", op[p])
    /\ UNCHANGED <<apiVars, ragVars, storageVars, calls>>

\* auth.py line 96, app.py line 88: auth_header.split(" ")[1]
ReqToken(p) ==
    /\ pc[p] = "auth"
    /\ Protected(op[p])
    /\ BearerHeader(op[p].header)
    /\ op' = [op EXCEPT ![p].token = op[p].header.rest]
    /\ pc' = [pc EXCEPT ![p] = "verify_cache"]
    /\ UNCHANGED <<apiVars, ragVars, storageVars, calls, ret>>

\* auth.py lines 45-49: the cached user of the token is returned
VerifyCacheHit(p) ==
    /\ pc[p] = "verify_cache"
    /\ redis_available
    /\ \E c \in user_cache :
          /\ c.token = op[p].token
          /\ op' = [op EXCEPT ![p].user = Eval(c.value),
                              ![p].cache_reads = op[p].cache_reads + 1]
    /\ pc' = [pc EXCEPT ![p] = "handler"]
    /\ UNCHANGED <<apiVars, ragVars, storageVars, calls, ret>>

\* (C25) no error of the cache is caught
CaughtNowhere(site) == FALSE
\* auth.py lines 46-52 and 71-75: the read of the cache (with the eval of
\* what was read) and the write to it are each inside a try block of their
\* own, whose `except Exception` prints the error and goes on
Caught(site) == site \in {"read", "write"}

\* auth.py lines 45-52: no Redis; or the read finds no user; or the read
\* raises (whether the user is cached or not)
VerifyCacheMiss(p) ==
    /\ pc[p] = "verify_cache"
    /\ \/ /\ ~redis_available
          /\ op' = op
          /\ pc' = [pc EXCEPT ![p] = "verify_decode"]
          /\ UNCHANGED ret
       \/ /\ redis_available
          /\ \A c \in user_cache : c.token # op[p].token
          /\ op' = [op EXCEPT ![p].cache_reads = op[p].cache_reads + 1]
          /\ pc' = [pc EXCEPT ![p] = "verify_decode"]
          /\ UNCHANGED ret
       \/ /\ redis_available
          /\ LET o == [op[p] EXCEPT !.cache_reads = @ + 1,
                                    !.cache_errors = @ \cup {"read"}] IN
             IF Caught("read")
             THEN /\ op' = [op EXCEPT ![p] = o]
                  /\ pc' = [pc EXCEPT ![p] = "verify_decode"]
                  /\ UNCHANGED ret
             ELSE RaiseHttp(p, AuthLayer(o), 500, "Auth error: cache unavailable", o)
    /\ UNCHANGED <<apiVars, ragVars, storageVars, calls>>

\* auth.py lines 55, 79-80
VerifyDecodeRaise(p) ==
    /\ pc[p] = "verify_decode"
    /\ ~WellFormed(op[p].token)
    /\ RaiseHttp(p, AuthLayer(op[p]), 401, "Invalid token format",
                 [op[p] EXCEPT !.failed = "token"])
    /\ UNCHANGED <<apiVars, ragVars, storageVars, calls>>

\* auth.py lines 55-56
VerifyDecode(p) ==
    /\ pc[p] = "verify_decode"
    /\ WellFormed(op[p].token)
    /\ op' = [op EXCEPT ![p].user = [NoUserData EXCEPT !.user_id = Sub(op[p].token)]]
    /\ pc' = [pc EXCEPT ![p] = "verify_provider"]
    /\ UNCHANGED <<apiVars, ragVars, storageVars, calls, ret>>

\* the provider's user of a token
ProviderUser(token) ==
    IF token \in ProviderTokens THEN auth_users[token] ELSE NoUser

\* auth.py lines 59-61, 81-82: the provider returns no user; the
\* HTTPException(401) raised at line 61 is inside the try block, is no
\* jwt.InvalidTokenError and is caught by `except Exception` at line 81,
\* which raises HTTPException(500); auth_middleware re-raises it unchanged
\* (auth.py lines 100-101)
VerifyProviderNoUser(p) ==
    /\ pc[p] = "verify_provider"
    /\ ProviderUser(op[p].token) = NoUser
    /\ RaiseHttp(p, AuthLayer(op[p]), 500, "Auth error: 401: Invalid or expired token",
                 [op[p] EXCEPT !.failed = "no user",
                               !.provider_calls = op[p].provider_calls + 1])
    /\ UNCHANGED <<apiVars, ragVars, storageVars, calls>>

\* auth.py lines 59, 81-82: the call to the provider raises
VerifyProviderRaise(p) ==
    /\ pc[p] = "verify_provider"
    /\ RaiseHttp(p, AuthLayer(op[p]), 500, "Auth error: provider unavailable",
                 [op[p] EXCEPT !.failed = "provider",
                               !.provider_calls = op[p].provider_calls + 1])
    /\ UNCHANGED <<apiVars, ragVars, storageVars, calls>>

\* auth.py lines 59-68: user_data of the provider's user
VerifyProviderUser(p) ==
    /\ pc[p] = "verify_provider"
    /\ ProviderUser(op[p].token) # NoUser
    /\ LET u == ProviderUser(op[p].token) IN
       op' = [op EXCEPT ![p].user = [user_id |-> op[p].user.user_id,
                                     role |-> IF u.role = "" THEN "user" ELSE u.role,
                                     email |-> u.email],
                        ![p].provider_calls = op[p].provider_calls + 1,
                        ![p].provider_user = u]
    /\ pc' = [pc EXCEPT ![p] = "verify_store"]
    /\ UNCHANGED <<apiVars, ragVars, storageVars, calls, ret>>

\* auth.py lines 70-77: the user is cached for an hour when Redis is
\* available and the write does not raise; user_data is returned
VerifyStore(p) ==
    /\ pc[p] = "verify_store"
    /\ \/ /\ ~redis_available
          /\ pc' = [pc EXCEPT ![p] = "handler"]
          /\ UNCHANGED <<user_cache, op, ret>>
       \/ /\ redis_available
          /\ user_cache' = {c \in user_cache : c.token # op[p].token}
                              \cup {[token |-> op[p].token, value |-> Str(op[p].user)]}
          /\ pc' = [pc EXCEPT ![p] = "handler"]
          /\ UNCHANGED <<op, ret>>
       \/ /\ redis_available
          /\ LET o == [op[p] EXCEPT !.cache_errors = @ \cup {"write"}] IN
             IF Caught("write")
             THEN /\ op' = [op EXCEPT ![p] = o]
                  /\ pc' = [pc EXCEPT ![p] = "handler"]
                  /\ UNCHANGED ret
             ELSE RaiseHttp(p, AuthLayer(o), 500, "Auth error: cache unavailable", o)
          /\ UNCHANGED user_cache
    /\ UNCHANGED <<redis_available, auth_users, coach_log, ragVars, storageVars, calls>>

\* the one-hour TTL of a "user:{token}" key runs out
UserCacheExpire ==
    /\ \E c \in user_cache : user_cache' = user_cache \ {c}
    /\ UNCHANGED <<redis_available, auth_users, coach_log, ragVars, storageVars,
                   calls, pc, op, ret>>

\* supabase.auth: between two requests the provider's record of a
\* token's user changes: the user is removed, or its role is changed
ProviderChange ==
    /\ \A p \in Procs : pc[p] = "idle"
    /\ \E t \in ProviderTokens, u \in ProviderUsers :
          /\ u # auth_users[t]
          /\ auth_users' = [auth_users EXCEPT ![t] = u]
    /\ UNCHANGED <<redis_available, user_cache, coach_log, ragVars, storageVars,
                   calls, pc, op, ret>>

(***************************************************************************)
(* The route handlers                                                      *)
(***************************************************************************)
\* (C13) templates refused to everyone
TemplateForbiddenToAll(user, bot_id) == bot_id.prefix = "template_"

\* auth.py line 112
TemplateForbidden(user, bot_id) ==
    user.role # "admin" /\ bot_id.prefix = "template_"

\* auth.py lines 110-115
GetBot(p) ==
    /\ pc[p] = "handler"
    /\ op[p].path = "/api/bot/{bot_id}"
    /\ LET o == [op[p] EXCEPT !.handler_ran = TRUE] IN
       IF TemplateForbidden(op[p].user, op[p].bot_id)
       THEN RaiseHttp(p, "route", 403, "Admins only can access templates", o)
       ELSE Respond(p, [NoRet EXCEPT !.id = op[p].bot_id.prefix \o op[p].bot_id.rest,
                                     !.user = [NoUserData EXCEPT
                                                  !.email = op[p].user.email,
                                                  !.role = op[p].user.role]], o)
    /\ UNCHANGED <<apiVars, ragVars, storageVars, calls>>

\* auth.py lines 118-120, app.py lines 99-101
HealthCheck(p) ==
    /\ pc[p] = "handler"
    /\ op[p].path = "/health"
    /\ Respond(p, [NoRet EXCEPT !.result = "healthy"],
               [op[p] EXCEPT !.handler_ran = TRUE])
    /\ UNCHANGED <<apiVars, ragVars, storageVars, calls>>

\* app.py lines 94-96 (root); auth.py declares no route "/" and the router
\* answers 404; "/docs" is the documentation page of FastAPI
RootOrDocs(p) ==
    /\ pc[p] = "handler"
    /\ op[p].path \in {"/", "/docs"}
    /\ LET o == [op[p] EXCEPT !.handler_ran = TRUE] IN
       IF op[p].path = "/" /\ op[p].app = "auth"
       THEN RaiseHttp(p, "route", 404, "Not Found", op[p])
       ELSE Respond(p, [NoRet EXCEPT !.result =
                          IF op[p].path = "/" THEN "Lexpert Case AI API is running"
                          ELSE "docs"], o)
    /\ UNCHANGED <<apiVars, ragVars, storageVars, calls>>

\* app.py lines 105-123: the (mock) answer of process_query
QueryRag(p) ==
    /\ pc[p] = "handler"
    /\ op[p].path = "/api/rag"
    /\ Respond(p, [NoRet EXCEPT !.result = "response"],
               [op[p] EXCEPT !.handler_ran = TRUE])
    /\ UNCHANGED <<apiVars, ragVars, storageVars, calls>>

\* app.py lines 169-176
GetAutoTags(p) ==
    /\ pc[p] = "handler"
    /\ op[p].path = "/api/auto-tag"
    /\ Respond(p, [NoRet EXCEPT !.tags = auto_tag(op[p].body).tags,
                                !.confidence = auto_tag(op[p].body).confidence],
               [op[p] EXCEPT !.handler_ran = TRUE])
    /\ UNCHANGED <<apiVars, ragVars, storageVars, calls>>

\* app.py lines 179-186
PromptCoachRoute(p) ==
    /\ pc[p] = "handler"
    /\ op[p].path = "/api/prompt-coach"
    /\ Respond(p, [NoRet EXCEPT !.result = get_prompt_coach(op[p].body)],
               [op[p] EXCEPT !.handler_ran = TRUE])
    /\ UNCHANGED <<apiVars, ragVars, storageVars, calls>>

(***************************************************************************)
(* Calls of the text functions                                             *)
(***************************************************************************)
\* the texts made of one or two pieces
Composed(pieces) == pieces \cup {a \o b : a \in pieces, b \in pieces}

\* contents sent to auto_tag
ContentPieces == {Txt.petition, Txt.Petition, Txt.child, Txt.USPTO, Txt.office_action,
                  Txt.TMEP, Txt.hello, <<" ">>}
TagContents == Composed(ContentPieces)

\* prompts sent to get_prompt_coach and to PromptCoach.get_tooltip
PromptPieces == {Txt.draft_a_response, Txt.DRAFT_A_MOTION, Txt.draft, Txt.cite_law,
                 Txt.summarize_this, Txt.trademark, Txt.hello, NineDotted, <<" ">>}
Prompts == Composed(PromptPieces)

\* the three functions on these texts
AutoTagOf == [content \in TagContents |-> auto_tag(content)]
PromptCoachOf == [prompt \in Prompts |-> get_prompt_coach(prompt)]
TooltipOf == [prompt \in Prompts |-> get_tooltip(prompt)]

\* a call that runs to its end in one step: p stays idle, ret[p] is its
\* outcome
Finish(p, r, o) ==
    /\ pc[p] = "idle"
    /\ calls' = calls + 1
    /\ ret' = [ret EXCEPT ![p] = [r EXCEPT !.op = [o EXCEPT !.call = calls + 1]]]
    /\ UNCHANGED <<pc, op>>

\* rag/pipeline.py lines 84-119
AutoTag(p, content) ==
    /\ Finish(p, [NoRet EXCEPT !.status = "ok",
                               !.tags = AutoTagOf[content].tags,
                               !.confidence = AutoTagOf[content].confidence],
              [IdleOp EXCEPT !.name = "auto_tag", !.body = content])
    /\ UNCHANGED <<apiVars, ragVars, storageVars>>

\* rag/pipeline.py lines 121-145
GetPromptCoach(p, prompt) ==
    /\ Finish(p, [NoRet EXCEPT !.status = "ok",
                               !.result = PromptCoachOf[prompt]],
              [IdleOp EXCEPT !.name = "get_prompt_coach", !.body = prompt])
    /\ UNCHANGED <<apiVars, ragVars, storageVars>>

\* prompt_coach.py lines 102-130; coach_log keeps the first call
GetTooltip(p, prompt) ==
    /\ Finish(p, [NoRet EXCEPT !.status = "ok", !.tooltip = TooltipOf[prompt]],
              [IdleOp EXCEPT !.name = "get_tooltip", !.body = prompt])
    /\ coach_log' = IF coach_log = {}
                    THEN {[prompt |-> prompt, tooltip |-> TooltipOf[prompt]]}
                    ELSE coach_log
    /\ UNCHANGED <<redis_available, user_cache, auth_users, ragVars, storageVars>>

(***************************************************************************)
(* DocumentTagger.tag_document and process_upload (src/app.py)             *)
(***************************************************************************)
\* the places where the word-vector model can give a similarity other
\* than 0, for a text of ntokens tokens
Spikes(ntokens) ==
    UNION {{[token |-> t, tag |-> k, phrase |-> f, score |-> sc] :
               t \in 1..ntokens, f \in 1..Len(tag_patterns[k].phrases),
               sc \in Scores} : k \in 1..Len(tag_patterns)}

\* the tables of at most n such places
RECURSIVE SimTables(_, _)
SimTables(ntokens, n) ==
    IF n = 0 THEN {{}}
    ELSE LET smaller == SimTables(ntokens, n - 1) IN
         smaller \cup {T \cup {x} : T \in smaller, x \in Spikes(ntokens)}

\* a table gives one score for a token and a phrase
OneScore(T) ==
    \A x \in T, y \in T :
       (x.token = y.token /\ x.tag = y.tag /\ x.phrase = y.phrase) => x = y

\* texts sent to tag_document
TaggerTexts == {<<>>, Txt.custody_petition}

\* auto_tagger.py lines 49-67, called with op[p].body under the
\* similarities op[p].sim; on a text with no token the max() of line 57 has
\* nothing to take the maximum of and raises ValueError
TagDocument(p) ==
    /\ pc[p] = "tag_document"
    /\ LET ntokens == Len(nlp(lower(op[p].body))) IN
       IF ntokens = 0
       THEN Raise(p, "ValueError", op[p])
       ELSE Return(p, [NoRet EXCEPT !.tag = tag_document(op[p].sim, ntokens).tag,
                                    !.confidence =
                                        tag_document(op[p].sim, ntokens).confidence],
                   op[p])
    /\ UNCHANGED <<apiVars, ragVars, storageVars, calls>>

\* settings.py line 34
SUPPORTED_TAGS == {"petition", "office_action", "example"}

\* uploaded files: the contents of the pipeline and an empty file
UploadContents == Contents \cup {[name |-> "e", len |-> 0]}

\* similarities of the tokens of an uploaded text: none, or one for its
\* first token and the first phrase of a tag
UploadSims == {T \in SimTables(1, 1) : \A x \in T : x.phrase = 1}
\* texts sent to the routes of app.py
RequestContents == {Txt.custody_petition, Txt.office_action \o Txt.TMEP}
RequestPrompts == {Txt.draft_a_response, Txt.hello}

\* (C18) a process_upload that always keeps the tagger's tag
UploadTagKept(tagged, doc_type) == tagged.tag

\* src/app.py lines 54-60: the tag the document is stored under
UploadTag(tagged, doc_type) ==
    IF tagged.confidence < CONFIDENCE_THRESHOLD THEN doc_type ELSE tagged.tag

\* src/app.py lines 54-71: tag the content and call process_document with
\* the metadata; doc_type, tag, confidence and sim of the running call
\* record the upload
CallProcessUpload(p, content, doc_type, sim) ==
    /\ content.len > 0
    /\ LET tagged == tag_document(sim, content.len) IN
       Start(p, [IdleOp EXCEPT !.name = "process_document", !.content = content,
                               !.metadata = [type |-> UploadTag(tagged, doc_type)],
                               !.doc_id = "", !.doc_type = doc_type,
                               !.sim = sim, !.tag = tagged.tag,
                               !.confidence = tagged.confidence],
             "pd_embed")
    /\ UNCHANGED <<apiVars, ragVars, storageVars>>

\* src/app.py lines 56, 72-74: the tagger raises on a content with no
\* token and process_upload raises
ProcessUploadRaise(p, content, doc_type) ==
    /\ content.len = 0
    /\ Finish(p, [NoRet EXCEPT !.status = "raised", !.error = "ValueError"],
              [IdleOp EXCEPT !.name = "process_upload", !.content = content,
                             !.doc_type = doc_type])
    /\ UNCHANGED <<apiVars, ragVars, storageVars>>

(***************************************************************************)
(* POST /chat: app/api/routes/chat.py with services/chat_service.py (impl  *)
(* "routes") and backend/main.py (impl "main")                             *)
(***************************************************************************)
\* chat_service.py lines 17-23, main.py lines 65-71
LEGAL_CITATIONS == <<"Texas §153.002, p. 2",
                     "Texas Family Code §153.131",
                     "Texas §153.134(a)",
                     "Trademark Manual of Examining Procedure §1202.02",
                     "15 U.S.C. §1052(e)(1)">>

\* the message texts sent to POST /chat, in bodies that parse as a
\* MessageRequest (text: str); the endpoint is called for no other body
ChatTexts == {<<>>, <<" ">>, Txt.custody_petition, Txt.Temporary_orders,
              Txt.USPTO, Txt.trademark}

\* (C21) an endpoint that takes no text for empty
NotTextNever(text) == FALSE
\* `not request.text` (chat.py line 32, main.py line 457) and `not text`
\* (chat_service.py line 38): a str is false exactly when it is empty
NotText(text) == text = <<>>

\* chat_service.py lines 52-75, main.py lines 464-481: the sentence added
\* to the response for the keyword found in text.lower() and the citation;
\* `choice` is the index that random.choice draws
Reply(text, choice) ==
    IF Contains(Txt.custody, lower(text))
    THEN [error |-> "",
          text |-> "In child custody cases, the court's primary consideration is the best interest of the child.",
          citation |-> LEGAL_CITATIONS[1]]
    ELSE IF Contains(Txt.temporary, lower(text))
    THEN [error |-> "",
          text |-> "Temporary orders can be issued to establish temporary custody, visitation, and support.",
          citation |-> LEGAL_CITATIONS[2]]
    ELSE IF Contains(Txt.trademark, lower(text))
    THEN [error |-> "",
          text |-> "Trademark applications must meet distinctiveness requirements and avoid likelihood of confusion.",
          citation |-> LEGAL_CITATIONS[4]]
    ELSE [error |-> "",
          text |-> "Please provide more specific details about your legal question for a more targeted response.",
          citation |-> LEGAL_CITATIONS[choice]]

\* chat_service.py lines 26-75
process_message(text, choice) ==
    IF NotText(text)
    THEN [error |-> "Message text cannot be empty", text |-> "", citation |-> ""]
    ELSE Reply(text, choice)

CallChat(p, impl, text) ==
    /\ Start(p, [IdleOp EXCEPT !.name = "chat", !.impl = impl, !.body = text],
             "chat")
    /\ UNCHANGED <<apiVars, ragVars, storageVars>>

\* chat.py lines 32-36, main.py lines 457-458
ChatReject(p) ==
    /\ pc[p] = "chat"
    /\ NotText(op[p].body)
    /\ RaiseHttp(p, "route", 400, "Message text cannot be empty", op[p])
    /\ UNCHANGED <<apiVars, ragVars, storageVars, calls>>

\* chat.py lines 38-50: process_message is called; the HTTPException(400)
\* raised at line 43 for a result with an error is raised inside the try
\* block and caught by `except Exception` at line 48, which raises
\* HTTPException(500) with str() of it. main.py lines 460-481: the
\* response is made in the handler itself
ChatRespond(p) ==
    /\ pc[p] = "chat"
    /\ ~NotText(op[p].body)
    /\ \E choice \in 1..Len(LEGAL_CITATIONS) :
          LET o == [op[p] EXCEPT !.processed = TRUE]
              result == IF o.impl = "routes" THEN process_message(o.body, choice)
                        ELSE Reply(o.body, choice)
          IN IF result.error # ""
             THEN RaiseHttp(p, "route", 500, "400: " \o result.error, o)
             ELSE Respond(p, [NoRet EXCEPT !.answer = result.text,
                                           !.citation = result.citation], o)
    /\ UNCHANGED <<apiVars, ragVars, storageVars, calls>>

(***************************************************************************)
(* Specifications                                                          *)
(***************************************************************************)
\* arguments of direct store_document calls
StoreContents == {Whole(c) : c \in {d \in Contents : d.name = "a"}}
StoreMetadatas == {[type |-> "petition"]}

StoreStep(p) ==
    \/ SdCheckRaise(p)
    \/ SdCheckPass(p)
    \/ SdInsertDoc(p)
    \/ SdInsertDocRaise(p)
    \/ SdInsertVec(p)
    \/ SdInsertVecRaise(p)

DeleteStep(p) ==
    \/ DelVectors(p)
    \/ DelDocument(p)
    \/ DelRaise(p)

\* Spec: concurrent clients of the vector store (store_document,
\* delete_document)
Next ==
    \E p \in Procs :
       \/ /\ calls < MaxCalls
          /\ \E c \in StoreContents, m \in StoreMetadatas,
                e \in EmbeddingArgs, d \in DocIdArgs :
                CallStoreDocument(p, c, m, e, d)
       \/ StoreStep(p)
       \/ /\ calls < MaxCalls
          /\ \E d \in {r.id : r \in documents} \cup (DocIdArgs \ {""}) :
                CallDeleteDocument(p, d)
       \/ DeleteStep(p)

Spec == Init /\ [][Next]_vars

\* the client of the pipeline
PipelineProcs == {1}

PipelineCall(p) ==
    /\ calls < MaxPipelineCalls
    /\ \/ \E u \in Uploads, d \in DocIdArgs :
             CallProcessDocument(p, u.content, u.metadata, d)
       \/ \E c \in StoreContents, m \in StoreMetadatas,
             e \in EmbeddingArgs, d \in DocIdArgs :
             CallStoreDocument(p, c, m, e, d)
       \/ \E d \in {r.id : r \in documents} \cup (DocIdArgs \ {""}) :
             CallDeleteDocument(p, d)
       \/ \E q \in Queries, f \in Filters : CallQuery(p, q, f)
       \/ \E q \in Queries, k \in TopKs, f \in Filters :
             CallSimilaritySearch(p, Embed(q), k, f)

\* SpecPipeline: one client of the RAG pipeline (process_document, query)
\* and of the store under it
NextPipeline ==
    \/ \E p \in PipelineProcs :
          \/ PipelineCall(p)
          \/ PdEmbed(p)
          \/ PdEmbedRaise(p)
          \/ StoreStep(p)
          \/ DeleteStep(p)
          \/ QEmbed(p)
          \/ QEmbedRaise(p)
          \/ SearchCacheHit(p)
          \/ SearchStore(p)
          \/ SearchStoreRaise(p)
          \/ QLlm(p)
          \/ QLlmRaise(p)
    \/ CacheExpire

SpecPipeline == Init /\ [][NextPipeline]_vars

\* SpecStorage: concurrent clients of the storage service
StorageCall(p) ==
    /\ calls < MaxStorageCalls
    /\ \/ \E public \in BOOLEAN : CallCreateBucket(p, "documents", public)
       \/ CallCheckBucketExists(p, "documents")
       \/ \E impl \in Impls, f \in FileNames, decodable \in BOOLEAN :
             CallUploadFile(p, impl, f, decodable)

NextStorage ==
    \E p \in Procs :
       \/ StorageCall(p)
       \/ CbCheck(p)
       \/ CbCreate(p)
       \/ CbCreateRaise(p)
       \/ CbUpdate(p)
       \/ CbUpdateRaise(p)
       \/ McClientRaise(p)
       \/ McGetBucket(p)
       \/ UfDecodeRaise(p)
       \/ UfDecode(p)
       \/ MbCheck(p)
       \/ MbCreate(p)
       \/ MbCreateRaise(p)
       \/ UfUpload(p)
       \/ UfUploadRaise(p)
       \/ UfUrl(p)
       \/ UfInsert(p)
       \/ UfInsertRaise(p)

SpecStorage == Init /\ [][NextStorage]_vars

\* the client of the API, of the text functions and of the ingestion flow
ApiProcs == {1}

RequestCall(p) ==
    /\ calls < MaxRequests
    /\ \E app \in Apps, header \in Headers :
          \E path \in Paths(app) :
             \E bot_id \in (IF path = "/api/bot/{bot_id}" THEN BotIds ELSE {NoBotId}),
                body \in (IF path = "/api/auto-tag" THEN RequestContents
                          ELSE IF path = "/api/prompt-coach" THEN RequestPrompts
                          ELSE {<<>>}) :
                CallRequest(p, app, path, header, bot_id, body)

\* SpecAuth: requests to the two applications, authenticated by
\* get_current_user or auth_middleware
NextAuth ==
    \/ \E p \in ApiProcs :
          \/ RequestCall(p)
          \/ ReqPublic(p)
          \/ ReqNoBearer(p)
          \/ ReqToken(p)
          \/ VerifyCacheHit(p)
          \/ VerifyCacheMiss(p)
          \/ VerifyDecodeRaise(p)
          \/ VerifyDecode(p)
          \/ VerifyProviderNoUser(p)
          \/ VerifyProviderRaise(p)
          \/ VerifyProviderUser(p)
          \/ VerifyStore(p)
          \/ GetBot(p)
          \/ HealthCheck(p)
          \/ RootOrDocs(p)
          \/ QueryRag(p)
          \/ GetAutoTags(p)
          \/ PromptCoachRoute(p)
    \/ UserCacheExpire
    \/ ProviderChange

SpecAuth == InitAuth /\ [][NextAuth]_vars

\* SpecChat: requests to POST /chat of the two applications, which keep
\* nothing from one request to the next
NextChat ==
    \E p \in ApiProcs :
       \/ \E impl \in {"routes", "main"}, text \in ChatTexts :
             calls < MaxChatCalls /\ CallChat(p, impl, text)
       \/ ChatReject(p)
       \/ ChatRespond(p)

SpecChat == InitText /\ [][NextChat]_vars

\* SpecText: calls of auto_tag, get_prompt_coach and PromptCoach.get_tooltip
NextText ==
    \E p \in ApiProcs :
       \/ \E content \in TagContents :
             calls < MaxTextCalls /\ AutoTag(p, content)
       \/ \E prompt \in Prompts :
             calls < MaxTextCalls /\ GetPromptCoach(p, prompt)
       \/ \E prompt \in Prompts :
             calls < MaxTextCalls /\ GetTooltip(p, prompt)

SpecText == InitText /\ [][NextText]_vars

\* SpecTagger: one call of DocumentTagger.tag_document, on any of the
\* texts and under any similarities of its tokens
InitTagger ==
    /\ documents = {}
    /\ document_vectors = {}
    /\ clock = 1
    /\ redis_client = FALSE
    /\ search_cache = {}
    /\ embedding_cache = {}
    /\ embed_requests = [t \in AllTexts |-> 0]
    /\ ingest = [n \in CallNumbers |-> NoIngest]
    /\ calls = 1
    /\ buckets = {}
    /\ objects = {}
    /\ document_records = {}
    /\ redis_available = FALSE
    /\ user_cache = {}
    /\ auth_users = [t \in ProviderTokens |-> NoUser]
    /\ coach_log = {}
    /\ pc = [p \in Procs |-> IF p \in ApiProcs THEN "tag_document" ELSE "idle"]
    /\ \E text \in TaggerTexts :
          \E sim \in {T \in SimTables(Len(nlp(lower(text))), MaxSpikes) : OneScore(T)} :
             op = [p \in Procs |->
                     IF p \in ApiProcs
                     THEN [IdleOp EXCEPT !.name = "tag_document", !.body = text,
                                         !.sim = sim, !.call = 1]
                     ELSE IdleOp]
    /\ ret = [p \in Procs |-> NoRet]

NextTagger == \E p \in ApiProcs : TagDocument(p)

SpecTagger == InitTagger /\ [][NextTagger]_vars

\* SpecUpload: the ingestion flow process_upload
NextUpload ==
    \E p \in ApiProcs :
       \/ \E content \in UploadContents, doc_type \in SUPPORTED_TAGS,
             sim \in UploadSims :
             calls < MaxUploads /\ CallProcessUpload(p, content, doc_type, sim)
       \/ \E content \in UploadContents, doc_type \in SUPPORTED_TAGS :
             calls < MaxUploads /\ ProcessUploadRaise(p, content, doc_type)
       \/ PdEmbed(p)
       \/ PdEmbedRaise(p)
       \/ SdCheckPass(p)
       \/ SdInsertDoc(p)
       \/ SdInsertDocRaise(p)
       \/ SdInsertVec(p)
       \/ SdInsertVecRaise(p)

SpecUpload == InitText /\ [][NextUpload]_vars

(***************************************************************************)
(* Properties                                                              *)
(***************************************************************************)
\* the call that client p finished last
Finished(p, names) == pc[p] = "idle" /\ ret[p].op.name \in names

\* the rows of ingestion n still in the tables
ChunksOf(n) == {r \in documents : r.created_at \in ingest[n].docs}
EmbeddingsOf(n) == {v \in document_vectors : v.id \in ingest[n].vecs}

\* C1: once delete_document has returned for the id that a finished
\* process_document call had returned, no documents row and no
\* document_vectors row inserted by that process_document call is left.
C1_DeleteRemovesIngestion ==
    \A p \in Procs :
       (Finished(p, {"delete_document"}) /\ ret[p].status = "ok") =>
          \A n \in ret[p].op.after : ChunksOf(n) = {} /\ EmbeddingsOf(n) = {}

\* C2: whenever no call is in progress (so also after an ingestion that
\* failed part-way), every ingestion has as many document_vectors rows as
\* documents rows in the store.
C2_EmbeddingsMatchChunks ==
    (\A p \in Procs : pc[p] = "idle") =>
       \A n \in CallNumbers :
          Cardinality(EmbeddingsOf(n)) = Cardinality(ChunksOf(n))

\* C3: in every state of every interleaving of store_document and
\* delete_document, each document_vectors row references a documents row
\* that exists.
C3_NoOrphanEmbedding ==
    \A v \in document_vectors : \E r \in documents : r.id = v.document_id

\* a store_document call lost its documents row to a concurrent delete and
\* its vector insert was refused, while another embedding is stored
C3_Witness ==
    /\ \E p \in Procs : /\ Finished(p, {"store_document"})
                        /\ ret[p].error = "foreign key violation"
    /\ document_vectors # {}

\* C4: a store_document call whose embedding has not VECTOR_DIMENSION
\* elements raises ValueError and inserts no row, at any point of the call;
\* every stored embedding has VECTOR_DIMENSION elements.
C4_DimensionEnforced ==
    /\ \A v \in document_vectors : v.embedding.dim = VECTOR_DIMENSION
    /\ \A p \in Procs :
          /\ (op[p].name = "store_document" /\ op[p].s_emb.dim # VECTOR_DIMENSION)
                => ingest[op[p].call] = NoIngest
          /\ (Finished(p, {"store_document"})
                /\ ret[p].op.s_emb.dim # VECTOR_DIMENSION)
                => /\ ret[p].status = "raised"
                   /\ ret[p].error = "ValueError"
                   /\ ingest[ret[p].op.call] = NoIngest

\* a call with a short embedding was refused while the tables hold rows
C4_Witness ==
    /\ \E p \in Procs : /\ Finished(p, {"store_document"})
                        /\ ret[p].op.s_emb.dim # VECTOR_DIMENSION
                        /\ ret[p].error = "ValueError"
    /\ document_vectors # {}

FailureMessage(dependency) ==
    CASE dependency = "embedding" -> "embedding unavailable"
      [] dependency = "store" -> "store unavailable"
      [] dependency = "llm" -> "model unavailable"
      [] OTHER -> ""

\* C6: a query() or similarity_search call during which the embedding
\* service, the document store or the language model failed ends by raising
\* with that failure's message, never by returning a value.
C6_FailuresSurface ==
    \A p \in Procs :
       (Finished(p, {"query", "similarity_search"}) /\ ret[p].op.failed # "none") =>
          /\ ret[p].status = "raised"
          /\ ret[p].error = FailureMessage(ret[p].op.failed)

\* a metadata dictionary satisfies a filter
Matches(metadata, filter) ==
    \A kv \in filter : kv[1] \in DOMAIN metadata /\ metadata[kv[1]] = kv[2]

\* C7: every chunk returned by a search with a metadata filter satisfies
\* the filter (so the result is empty when no stored chunk does).
C7_FilterRespected ==
    \A p \in Procs :
       (Finished(p, {"query", "similarity_search"}) /\ ret[p].op.filter # {}) =>
          \A i \in 1..Len(ret[p].op.results) :
             Matches(ret[p].op.results[i].metadata, ret[p].op.filter)

\* the stored chunks with their similarity to the query vector q
Scored(q) ==
    {[row |-> x[1], sim |-> Similarity(q, x[2].embedding)] :
        x \in {y \in documents \X document_vectors : y[2].document_id = y[1].id}}

\* the first k of S by descending similarity, equal ones in insertion order
RECURSIVE Ranked(_, _)
Ranked(S, k) ==
    IF S = {} \/ k = 0 THEN <<>>
    ELSE LET best == CHOOSE x \in S : \A y \in S :
                        \/ x.sim > y.sim
                        \/ x.sim = y.sim /\ x.row.created_at <= y.row.created_at
         IN <<Doc(best.row)>> \o Ranked(S \ {best}, k - 1)

\* C8: a search step without filter and without failure returns at most
\* top_k chunks: the top_k stored chunks by similarity to the query vector,
\* in descending order of similarity, equal ones in insertion order.
C8_TopKBySimilarity ==
    [][\A p \in Procs :
          (pc[p] = "search" /\ pc'[p] # "search") =>
             LET o == IF pc'[p] = "idle" THEN ret'[p].op ELSE op'[p] IN
             (o.filter = {} /\ o.failed = "none") =>
                /\ Len(o.results) <= o.top_k
                /\ o.results = Ranked(Scored(o.qemb), o.top_k)]_vars

\* C9: the embedding service returns a vector for any one text at most
\* once, over all process_document and query calls.
C9_EmbedOnce ==
    \A t \in AllTexts : embed_requests[t] <= 1

\* C10: an upload_file call whose blob was stored and whose documents
\* insert then raised returns success with the path, the URL and the
\* message that the database record failed; the blob stays in the bucket
\* and no record of it exists.
C10_PartialSuccess ==
    \A p \in Procs :
       (Finished(p, {"upload_file"}) /\ ret[p].op.failed = "insert") =>
          /\ ret[p].status = "ok"
          /\ ret[p].success
          /\ ret[p].file_path = ret[p].op.file_path
          /\ ret[p].file_url = ret[p].op.file_url
          /\ ret[p].message =
                "File uploaded successfully, but database record creation failed"
          /\ [bucket |-> "documents", path |-> ret[p].op.file_path] \in objects
          /\ \A r \in document_records : r.path # ret[p].op.file_path

\* both implementations have reported the partial success
C10_Witness ==
    \A impl \in Impls : \E p \in Procs :
       /\ Finished(p, {"upload_file"})
       /\ ret[p].op.impl = impl
       /\ ret[p].op.uploaded
       /\ ret[p].op.failed = "insert"
       /\ ret[p].success

\* C11: a finished request to a protected route whose Authorization header
\* is missing or does not start with "Bearer " was answered 401, without
\* its handler having run and without a read of the cache or a call to the
\* identity provider.
C11_MissingBearerRejected ==
    \A p \in Procs :
       (/\ Finished(p, {"request"})
        /\ Protected(ret[p].op)
        /\ ~BearerHeader(ret[p].op.header)) =>
          /\ ret[p].code = 401
          /\ ~ret[p].op.handler_ran
          /\ ret[p].op.cache_reads = 0
          /\ ret[p].op.provider_calls = 0

\* C12: a finished request during which the identity provider returned no
\* user for the token was answered 401 with 'Invalid or expired token'.
C12_NoUserIs401 ==
    \A p \in Procs :
       (Finished(p, {"request"}) /\ ret[p].op.failed = "no user") =>
          /\ ret[p].code = 401
          /\ ret[p].error = "Invalid or expired token"

\* C13: an authenticated request to GET /api/bot/{bot_id} is answered 403
\* exactly when the role of the validated identity is not 'admin' and
\* bot_id starts with 'template_'; otherwise it is answered with the bot
\* id and the email and role of the user.
C13_TemplatesAdminOnly ==
    \A p \in Procs :
       (/\ Finished(p, {"request"})
        /\ ret[p].op.path = "/api/bot/{bot_id}"
        /\ ret[p].op.handler_ran) =>
          LET o == ret[p].op IN
          /\ ret[p].code = 403 <=>
                (o.user.role # "admin" /\ o.bot_id.prefix = "template_")
          /\ ret[p].code # 403 =>
                /\ ret[p].code = 200
                /\ ret[p].id = o.bot_id.prefix \o o.bot_id.rest
                /\ ret[p].user.email = o.user.email
                /\ ret[p].user.role = o.user.role

\* a user of role 'user', authenticated from the cache, was refused a
\* template
C13_Witness ==
    \E p \in Procs :
       /\ Finished(p, {"request"})
       /\ ret[p].op.path = "/api/bot/{bot_id}"
       /\ ret[p].code = 403
       /\ ret[p].op.user.role = "user"
       /\ ret[p].op.cache_reads = 1
       /\ ret[p].op.provider_calls = 0

\* C14: a finished request to '/', '/health' or '/docs' passed the auth
\* layer (it was answered by the router, not 401 or 500) with no token
\* taken from it, no read of the cache and no call to the identity
\* provider, whatever its Authorization header; GET /health was answered
\* 200 with status 'healthy'.
C14_PublicRoutesOpen ==
    \A p \in Procs :
       (Finished(p, {"request"}) /\ ret[p].op.path \in PublicRoutes) =>
          /\ ret[p].code \in {200, 404}
          /\ ret[p].op.token = ""
          /\ ret[p].op.cache_reads = 0
          /\ ret[p].op.provider_calls = 0
          /\ ret[p].op.path = "/health" =>
                /\ ret[p].code = 200
                /\ ret[p].result = "healthy"
                /\ ret[p].op.handler_ran

\* /health of the application with the middleware was answered without an
\* Authorization header
C14_Witness ==
    \E p \in Procs :
       /\ Finished(p, {"request"})
       /\ ret[p].op.app = "auth"
       /\ ret[p].op.path = "/health"
       /\ ret[p].op.header = NoHeader
       /\ ret[p].code = 200
       /\ ret[p].result = "healthy"

\* C15: a finished auto_tag call (direct, or serving POST /api/auto-tag) or
\* tag_document call on a text that contains 'office action' and 'TMEP'
\* returned the tag 'office_action'.
C15_OfficeActionTagged ==
    \A p \in Procs :
       (/\ pc[p] = "idle"
        /\ ret[p].status = "ok"
        /\ \/ ret[p].op.name \in {"auto_tag", "tag_document"}
           \/ ret[p].op.name = "request" /\ ret[p].op.path = "/api/auto-tag"
        /\ Contains(Txt.office_action, ret[p].op.body)
        /\ Contains(Txt.TMEP, ret[p].op.body)) =>
          IF ret[p].op.name = "tag_document"
          THEN ret[p].tag = "office_action"
          ELSE \E i \in 1..Len(ret[p].tags) : ret[p].tags[i] = "office_action"

\* the keywords of auto_tag
TagKeywords == {Txt.petition, Txt.affidavit, Txt.custody, Txt.child, Txt.trademark, Txt.uspto}

\* C16: a finished auto_tag call returned 'document' as its only tag
\* exactly when no keyword occurs in the lower-cased content, and a
\* confidence below CONFIDENCE_THRESHOLD exactly then; if 'petition'
\* occurs in the lower-cased content the first tag is 'petition'.
C16_DefaultTagLowConfidence ==
    \A p \in Procs :
       Finished(p, {"auto_tag"}) =>
          LET content_lower == lower(ret[p].op.body)
              none == \A w \in TagKeywords : ~Contains(w, content_lower)
          IN /\ ret[p].tags = <<"document">> <=> none
             /\ ret[p].confidence < CONFIDENCE_THRESHOLD <=> none
             /\ Contains(Txt.petition, content_lower) => ret[p].tags[1] = "petition"

\* a content with 'Petition' and 'child' was tagged petition, custody at
\* the threshold
C16_Witness ==
    \E p \in Procs :
       /\ Finished(p, {"auto_tag"})
       /\ ret[p].op.body = Txt.Petition \o Txt.child
       /\ ret[p].tags = <<"petition", "custody">>
       /\ ret[p].confidence = CONFIDENCE_THRESHOLD

\* the score of tag k: the highest similarity of a token of the text and a
\* phrase of the tag
ScoreOf(o, k) ==
    Max({similarity(o.sim, t, k, f) :
            t \in 1..Len(nlp(lower(o.body))),
            f \in 1..Len(tag_patterns[k].phrases)})

\* C17: a tag_document call on a text with tokens returned the tag of the
\* highest score, the earliest of them in the order petition,
\* office_action, example, and that score as the confidence.
C17_HighestScoreWins ==
    \A p \in Procs :
       (Finished(p, {"tag_document"}) /\ nlp(lower(ret[p].op.body)) # <<>>) =>
          /\ ret[p].status = "ok"
          /\ \E k \in 1..Len(tag_patterns) :
                /\ ret[p].tag = tag_patterns[k].tag
                /\ ret[p].confidence = ScoreOf(ret[p].op, k)
                /\ \A j \in 1..Len(tag_patterns) :
                      ScoreOf(ret[p].op, j) <= ScoreOf(ret[p].op, k)
                /\ \A j \in 1..(k - 1) :
                      ScoreOf(ret[p].op, j) < ScoreOf(ret[p].op, k)
          /\ <<tag_patterns[1].tag, tag_patterns[2].tag, tag_patterns[3].tag>>
                = <<"petition", "office_action", "example">>

\* office_action and example share the highest score and office_action
\* was returned
C17_Witness ==
    \E p \in Procs :
       /\ Finished(p, {"tag_document"})
       /\ ret[p].tag = "office_action"
       /\ ret[p].confidence = 85
       /\ ScoreOf(ret[p].op, 3) = 85
       /\ ScoreOf(ret[p].op, 1) = 0

\* the process_upload call of p, running or finished
UploadOf(p) == IF pc[p] = "idle" THEN ret[p].op ELSE op[p]
IsUpload(o) == o.name = "process_document" /\ o.doc_type # ""

\* C18: every documents row stored by a process_upload call has the
\* uploader's doc_type as metadata type when the tagger's confidence was
\* below CONFIDENCE_THRESHOLD, and the tagger's tag when it was not.
C18_UploaderOverridesLowConfidence ==
    \A p \in Procs :
       IsUpload(UploadOf(p)) =>
          \A r \in ChunksOf(UploadOf(p).call) :
             /\ UploadOf(p).confidence < CONFIDENCE_THRESHOLD
                   => r.metadata.type = UploadOf(p).doc_type
             /\ UploadOf(p).confidence >= CONFIDENCE_THRESHOLD
                   => r.metadata.type = UploadOf(p).tag

\* a finished upload tagged office_action with confidence 50 is stored as
\* the uploader's 'example'
C18_Witness ==
    \E p \in Procs :
       /\ pc[p] = "idle"
       /\ ret[p].status = "ok"
       /\ IsUpload(ret[p].op)
       /\ ret[p].op.tag = "office_action"
       /\ ret[p].op.confidence = 50
       /\ ret[p].op.doc_type = "example"
       /\ \E r \in ChunksOf(ret[p].op.call) : r.metadata.type = "example"

\* C19: a finished get_prompt_coach call (direct, or serving POST
\* /api/prompt-coach) on a prompt of fewer than 10 characters returned the
\* 'be more specific' suggestion; on a prompt of 10 or more characters
\* containing 'draft' and none of 'cite', 'using', 'based on' (in any
\* case of the letters) it returned the citation suggestion.
C19_CoachRules ==
    \A p \in Procs :
       (/\ pc[p] = "idle"
        /\ ret[p].status = "ok"
        /\ \/ ret[p].op.name = "get_prompt_coach"
           \/ ret[p].op.name = "request" /\ ret[p].op.path = "/api/prompt-coach") =>
          LET prompt == ret[p].op.body IN
          /\ Len(prompt) < 10 => ret[p].result = BeSpecific
          /\ (/\ Len(prompt) >= 10
              /\ Contains(Txt.draft, lower(prompt))
              /\ \A w \in {Txt.cite, Txt.using, Txt.based_on} : ~Contains(w, lower(prompt)))
                => ret[p].result = AddCitation

\* every suggestion of the rule table, in its order
AllSuggestions == MatchedSuggestions([k \in 1..Len(patterns) |-> k])
PlaceOf(line) == CHOOSE i \in 1..Len(AllSuggestions) : AllSuggestions[i] = line

C23_EnsureBucket ==
    \A p \in Procs :
       (/\ Finished(p, {"create_bucket"})
        /\ ret[p].op.failed = "none") =>
          /\ ret[p].result = "success"
          /\ Cardinality({b \in buckets : b.name = ret[p].op.bucket}) = 1
          /\ ret[p].op.bucket_exists =>
                ret[p].exists /\ ret[p].op.create_requests = 0

\* two concurrent calls both found the bucket missing; one created it, the
\* other was told of the duplicate and reported exists=True
C23_Witness ==
    \E p \in Procs, q \in Procs :
       /\ Finished(p, {"create_bucket"}) /\ Finished(q, {"create_bucket"})
       /\ ret[p].result = "success" /\ ~ret[p].exists
       /\ ret[q].result = "success" /\ ret[q].exists
       /\ ~ret[q].op.bucket_exists
       /\ ret[q].op.create_requests = 1
       /\ ret[q].op.failed = "none"
\* C29: a create_bucket call (direct, or made by upload_file to ensure the
\* 'documents' bucket) that returned status 'error' has not created the
\* bucket: it added nothing to the buckets of the storage.
C29_ErrorMeansNotCreated ==
    \A p \in Procs :
       (/\ pc[p] = "idle"
        /\ \/ ret[p].op.name = "create_bucket" /\ ret[p].result = "error"
           \/ ret[p].op.name = "upload_file" /\ ret[p].op.failed = "bucket") =>
          ~ret[p].op.created
\* C24: an upload_file call of storage_service.py that failed at the decoding,
\* at ensuring the 'documents' bucket or at the blob upload returned
\* success=False with an error message, and no documents record carries
\* its path; when the decoding failed it had contacted neither the storage
\* nor the database.
C24_FailedUploadLeavesNoRecord ==
    \A p \in Procs :
       (/\ Finished(p, {"upload_file"})
        /\ ret[p].op.impl = "service"
        /\ ret[p].op.failed \in {"decode", "bucket", "upload"}) =>
          /\ ~ret[p].success
          /\ ret[p].error # ""
          /\ \A r \in document_records : r.path # ret[p].op.file_path
          /\ ret[p].op.failed = "decode" =>
                /\ ~ret[p].op.contacted
                /\ ~ret[p].op.uploaded
                /\ ret[p].op.create_requests = 0

\* the blob upload of a decoded file failed after the bucket was ensured,
\* while the other client had stored a record
C24_Witness ==
    \E p \in Procs :
       /\ Finished(p, {"upload_file"})
       /\ ret[p].op.impl = "service"
       /\ ret[p].op.failed = "upload"
       /\ ret[p].op.contacted
       /\ ~ret[p].success
       /\ document_records # {}
\* C27: every documents record written by upload_file (storage_service.py
\* or main.py) carries the path of a blob stored in the 'documents' bucket.
C27_RecordOnlyAfterBlob ==
    \A r \in document_records :
       [bucket |-> "documents", path |-> r.path] \in objects

\* an upload of main.py has stored its blob and inserted its record
C27_Witness ==
    \E p \in Procs :
       /\ Finished(p, {"upload_file"})
       /\ ret[p].op.impl = "main"
       /\ ret[p].success
       /\ \E r \in document_records : r.path = ret[p].file_path
\* C28: a process_document call on a content of n >= 1 chunks, during which
\* neither the store nor the embedding service was unavailable and whose
\* doc_id (when given) was not the id of a row of another call, completed
\* with n documents rows and n document_vectors rows of its own and
\* returned the id of the row of its first chunk.
C28_EveryChunkStored ==
    \A p \in Procs :
       LET o == ret[p].op
           n == Len(split_text(o.content))
       IN (/\ Finished(p, {"process_document"})
           /\ n >= 1
           /\ ret[p].error \notin {"store unavailable", "embedding unavailable"}
           /\ \A r \in documents :
                 r.id = o.doc_id => r.created_at \in ingest[o.call].docs) =>
             /\ ret[p].status = "ok"
             /\ Cardinality(ChunksOf(o.call)) = n
             /\ Cardinality(EmbeddingsOf(o.call)) = n
             /\ \E r \in ChunksOf(o.call) :
                   /\ r.id = ret[p].id
                   /\ \A r2 \in ChunksOf(o.call) : r.created_at <= r2.created_at
\* the lists that the two selects of similarity_search can return from
\* the store as it is now
StoreResults(top_k) ==
    UNION {Orderings({Doc(r) : r \in DocumentsIn({v.document_id : v \in S})}) :
              S \in LimitedVectorRows(top_k)}

UserDataOf(token, u) ==
    [user_id |-> Sub(token),
     role |-> IF u.role = "" THEN "user" ELSE u.role,
     email |-> u.email]

\* the cache was unreachable at start-up, or its read or its write raised
\* during the request
CacheUnusable(o) == ~redis_available \/ o.cache_errors # {}

\* C25: a finished request with a bearer token to a protected route, for
\* which the cache was unreachable at start-up or a read or write of it
\* raised, got from verify_supabase_jwt what it gives with no cache: the
\* identity built from the provider's user, after one call to the
\* provider, or the failure of the token or of the provider.
C25_CacheBestEffort ==
    \A p \in Procs :
       (/\ Finished(p, {"request"})
        /\ Protected(ret[p].op)
        /\ BearerHeader(ret[p].op.header)
        /\ CacheUnusable(ret[p].op)) =>
          LET o == ret[p].op IN
          IF o.handler_ran
          THEN /\ o.provider_calls = 1
               /\ o.provider_user # NoUser
               /\ o.user = UserDataOf(o.token, o.provider_user)
          ELSE /\ ret[p].status = "raised"
               /\ \/ /\ o.failed = "token"
                     /\ ~WellFormed(o.token)
                     /\ ret[p].error = "Invalid token format"
                     /\ ret[p].code = ResponseCode(AuthLayer(o), 401)
                  \/ /\ o.failed = "no user"
                     /\ o.provider_calls = 1
                     /\ ret[p].error = "Auth error: 401: Invalid or expired token"
                     /\ ret[p].code = 500
                  \/ /\ o.failed = "provider"
                     /\ o.provider_calls = 1
                     /\ ret[p].error = "Auth error: provider unavailable"
                     /\ ret[p].code = 500

\* a request whose cache read and cache write both raised was answered
\* with the provider's identity
C25_Witness ==
    \E p \in Procs :
       /\ Finished(p, {"request"})
       /\ redis_available
       /\ ret[p].op.cache_errors = {"read", "write"}
       /\ ret[p].op.path = "/api/bot/{bot_id}"
       /\ ret[p].code = 200
       /\ ret[p].user.role = "admin"

\* C26: a request is in its handler with an identity from
\* verify_supabase_jwt only while the provider has a user for its token,
\* and the role of that identity is the role the provider holds for it.
C26_OnlyCurrentIdentity ==
    \A p \in Procs :
       (/\ pc[p] = "handler"
        /\ op[p].name = "request"
        /\ Protected(op[p])) =>
          /\ ProviderUser(op[p].token) # NoUser
          /\ op[p].user.role = UserDataOf(op[p].token, ProviderUser(op[p].token)).role

\* C22: a finished POST /api/check-bucket-exists of backend/main.py that
\* got its Supabase client answered status 'success' with exists = true
\* when the bucket was in the storage and exists = false when it was not.
C22_CheckReportsBucket ==
    \A p \in Procs :
       (/\ Finished(p, {"check_bucket_exists"})
        /\ ret[p].op.impl = "main"
        /\ ret[p].op.failed = "none") =>
          /\ ret[p].result = "success"
          /\ ret[p].exists = ret[p].op.bucket_exists

\* C21: a finished POST /chat with empty message text was answered 400
\* with 'Message text cannot be empty', without the message having been
\* processed and with no response text and no citation; and every POST
\* /chat that ended with an error was answered 400.
C21_EmptyTextRejected ==
    \A p \in Procs :
       Finished(p, {"chat"}) =>
          /\ ret[p].op.body = <<>> =>
                /\ ret[p].status = "raised"
                /\ ret[p].code = 400
                /\ ret[p].error = "Message text cannot be empty"
                /\ ~ret[p].op.processed
                /\ ret[p].answer = ""
                /\ ret[p].citation = ""
          /\ ret[p].status = "raised" => ret[p].code = 400

\* the endpoint of routes/chat.py refused an empty text, as the second
\* request to it
C21_Witness ==
    \E p \in Procs :
       /\ Finished(p, {"chat"})
       /\ calls = MaxChatCalls
       /\ ret[p].op.impl = "routes"
       /\ ret[p].op.body = <<>>
       /\ ret[p].code = 400

====
